---- MODULE Spec2Model ----
(***************************************************************************)
(* ScholarGraph: supersession detection (in one process and in several),   *)
(* hybrid search fusion, the embedding generator and its file cache, the   *)
(* text chunker, batch ingestion of a file and of a directory, and the     *)
(* retry wrapper, modelled from the Python sources.                        *)
(*                                                                         *)
(* Text is a sequence of one-character strings, so that lower(), strip(),  *)
(* split(), the session/date regular expression and difflib's             *)
(* SequenceMatcher are computed character by character.                    *)
(***************************************************************************)
EXTENDS Integers, Sequences, FiniteSets, TLC

(***************************************************************************)
(* Python str helpers                                                      *)
(***************************************************************************)

\* str.lower() on one character (the upper-case letters of the alphabet used)
lowerChar(c) ==
    CASE c = "A" -> "a" [] c = "B" -> "b" [] c = "C" -> "c"
      [] c = "S" -> "s" [] c = "R" -> "r" [] c = "X" -> "x"
      [] OTHER -> c

lower(s) == [i \in 1..Len(s) |-> lowerChar(s[i])]

\* the whitespace characters of the alphabet used
Whitespace == {" ", "\n"}
DashUnderscore == {"-", "_"}
Digits == {"0", "1", "2", "3", "4", "5", "6", "7", "8", "9"}

RECURSIVE lstrip(_, _)
lstrip(s, cs) == IF s # <<>> /\ Head(s) \in cs THEN lstrip(Tail(s), cs) ELSE s

RECURSIVE rstrip(_, _)
rstrip(s, cs) ==
    IF s # <<>> /\ s[Len(s)] \in cs THEN rstrip(SubSeq(s, 1, Len(s) - 1), cs) ELSE s

\* str.strip(chars)
strip(s, cs) == rstrip(lstrip(s, cs), cs)

\* the indexes of the whitespace characters of s
whitespaceAt(s) == {i \in 1..Len(s) : s[i] \in Whitespace}

distance(a, b) == IF a < b THEN b - a ELSE a - b

\* the whitespace character of s nearest to its middle
middleWhitespace(s) ==
    CHOOSE i \in whitespaceAt(s) :
        \A j \in whitespaceAt(s) : distance(2 * i, Len(s) + 1) <= distance(2 * j, Len(s) + 1)

\* str.split(): the list of whitespace-delimited words, the words before a
\* whitespace character followed by the words after it
RECURSIVE split(_)
split(s) ==
    IF whitespaceAt(s) = {} THEN IF s = <<>> THEN <<>> ELSE <<s>>
    ELSE split(SubSeq(s, 1, middleWhitespace(s) - 1))
             \o split(SubSeq(s, middleWhitespace(s) + 1, Len(s)))

\* " ".join(words), the first half of the words joined to the second
RECURSIVE join(_)
join(ws) ==
    IF ws = <<>> THEN <<>>
    ELSE IF Len(ws) = 1 THEN ws[1]
    ELSE join(SubSeq(ws, 1, Len(ws) \div 2)) \o <<" ">>
             \o join(SubSeq(ws, Len(ws) \div 2 + 1, Len(ws)))

\* words[:n]
take(ws, n) == SubSeq(ws, 1, IF Len(ws) < n THEN Len(ws) ELSE n)

\* Cypher STARTS WITH / CONTAINS (case-sensitive)
StartsWith(s, p) == Len(p) <= Len(s) /\ SubSeq(s, 1, Len(p)) = p

Contains(s, p) ==
    \E i \in 1..(Len(s) - Len(p) + 1) : SubSeq(s, i, i + Len(p) - 1) = p

(***************************************************************************)
(* difflib.SequenceMatcher(None, a, b).ratio(), no junk (autojunk needs    *)
(* 200 elements).  Positions are 0-based and ranges half-open, as in       *)
(* difflib.                                                                *)
(***************************************************************************)

\* a[i:i+k] == b[j:j+k]
sameBlock(a, b, i, j, k) == \A d \in 0..(k - 1) : a[i + d + 1] = b[j + d + 1]

\* find_longest_match: the longest block, then the smallest i, then the smallest j
find_longest_match(a, b, alo, ahi, blo, bhi) ==
    LET blocks == {m \in (alo..(ahi - 1)) \X (blo..(bhi - 1)) \X (1..(ahi - alo)) :
                      /\ m[1] + m[3] <= ahi
                      /\ m[2] + m[3] <= bhi
                      /\ sameBlock(a, b, m[1], m[2], m[3])}
    IN  IF blocks = {} THEN <<alo, blo, 0>>
        ELSE CHOOSE m \in blocks :
                \A n \in blocks :
                    \/ m[3] > n[3]
                    \/ m[3] = n[3] /\ m[1] < n[1]
                    \/ m[3] = n[3] /\ m[1] = n[1] /\ m[2] <= n[2]

\* get_matching_blocks: the total size of the matching blocks; the block
\* (i, j, k) found in a[alo:ahi], b[blo:bhi], then the blocks left and right of it
RECURSIVE matches(_, _, _, _, _, _)
RECURSIVE matchesAround(_, _, _, _, _, _, _, _, _)
matchesAround(a, b, alo, ahi, blo, bhi, i, j, k) ==
    IF k = 0 THEN 0
    ELSE k
         + (IF alo < i /\ blo < j THEN matches(a, b, alo, i, blo, j) ELSE 0)
         + (IF i + k < ahi /\ j + k < bhi
                THEN matches(a, b, i + k, ahi, j + k, bhi) ELSE 0)

blockOf(a, b, alo, ahi, blo, bhi, m) ==
    matchesAround(a, b, alo, ahi, blo, bhi, m[1], m[2], m[3])

matches(a, b, alo, ahi, blo, bhi) ==
    blockOf(a, b, alo, ahi, blo, bhi, find_longest_match(a, b, alo, ahi, blo, bhi))

\* ratio() = 2.0 * matches / (len(a) + len(b)), 1.0 when both are empty;
\* kept as the fraction <<numerator, denominator>>
ratio(a, b) ==
    LET length == Len(a) + Len(b)
    IN  IF length = 0 THEN <<1, 1>>
        ELSE <<2 * matches(a, b, 0, Len(a), 0, Len(b)), length>>

\* f"{similarity:.2f}": the ratio in hundredths, rounded to nearest
fmt2(r) == (200 * r[1] + r[2]) \div (2 * r[2])

(***************************************************************************)
(* SupersessionDetector.SESSION_DATE_PATTERN, re.IGNORECASE:               *)
(*   session[_-]?(\d{4}[-_]\d{1,2}[-_]\d{1,2})                             *)
(* Positions are 1-based indices into the sequence.                        *)
(***************************************************************************)

charAt(s, p) == IF p >= 1 /\ p <= Len(s) THEN s[p] ELSE "end"
digitAt(s, p) == charAt(s, p) \in Digits
sepAt(s, p) == charAt(s, p) \in DashUnderscore

SessionWord == <<"s", "e", "s", "s", "i", "o", "n">>

\* the position just after the match that starts at i, or 0 when none starts
\* there; each quantifier is greedy and a shorter choice can never succeed
\* where the longer one failed
sessionMatchEnd(s, i) ==
    LET p0 == i + 7
        p1 == IF sepAt(s, p0) THEN p0 + 1 ELSE p0
        p2 == p1 + 4
        p3 == p2 + 1
        p4 == IF digitAt(s, p3 + 1) THEN p3 + 2 ELSE p3 + 1
        p5 == p4 + 1
        p6 == IF digitAt(s, p5 + 1) THEN p5 + 2 ELSE p5 + 1
    IN  IF /\ i + 6 <= Len(s)
           /\ lower(SubSeq(s, i, i + 6)) = SessionWord
           /\ \A d \in 0..3 : digitAt(s, p1 + d)
           /\ sepAt(s, p2)
           /\ digitAt(s, p3)
           /\ sepAt(s, p4)
           /\ digitAt(s, p5)
        THEN p6 ELSE 0

\* SESSION_DATE_PATTERN.search(s) is not None
session_search(s) == \E i \in 1..Len(s) : sessionMatchEnd(s, i) > 0

\* SESSION_DATE_PATTERN.sub("", s), scanning from position i
RECURSIVE session_sub_from(_, _)
session_sub_from(s, i) ==
    IF i > Len(s) THEN <<>>
    ELSE LET e == sessionMatchEnd(s, i)
         IN  IF e > 0 THEN session_sub_from(s, e)
             ELSE <<s[i]>> \o session_sub_from(s, i + 1)

session_sub(s) == session_sub_from(s, 1)

(***************************************************************************)
(* File paths.  A path is [parent, stem, suffix]; Path(p).parent and       *)
(* Path(p).stem read the fields, str(p) is the whole text.                 *)
(***************************************************************************)

pathStr(p) == p.parent \o <<"/">> \o p.stem \o p.suffix

(***************************************************************************)
(* Ingestion dates as the detector receives them: None, the empty string,  *)
(* a string fromisoformat rejects, or a naive ISO instant t >= 1 as        *)
(* written by datetime.now().isoformat().                                  *)
(***************************************************************************)

MaxDate == 3

\* datetime.min, below every instant
DatetimeMin == 0

NoneDate == [kind |-> "none", t |-> 0]
EmptyDate == [kind |-> "empty", t |-> 0]
BadDate == [kind |-> "bad", t |-> 0]
IsoDate(t) == [kind |-> "iso", t |-> t]

DateValues == {NoneDate, EmptyDate, BadDate} \cup {IsoDate(t) : t \in 1..MaxDate}

(***************************************************************************)
(* SupersessionDetector._should_supersede                                  *)
(***************************************************************************)

TITLE_SIMILARITY_THRESHOLD == <<85, 100>>

Reason(kind, pct) == [kind |-> kind, pct |-> pct]

\* r >= threshold, both fractions
ratioAtLeast(r, th) == r[1] * th[2] >= th[1] * r[2]

\* the try block of lines 66-70: both dates parse (an absent or empty candidate
\* date is datetime.min); any failure yields (datetime.now(), datetime.min)
datesParsed(new_ingestion_date, cand_date) ==
    new_ingestion_date.kind = "iso" /\ cand_date.kind # "bad"

candInstant(cand_date) == IF cand_date.kind = "iso" THEN cand_date.t ELSE DatetimeMin

\* a comparison that lets a candidate of the same instant through
notNewer_strict(new_ingestion_date, cand_date) ==
    /\ datesParsed(new_ingestion_date, cand_date)
    /\ new_ingestion_date.t < candInstant(cand_date)

\* new_date <= cand_dt
notNewer(new_ingestion_date, cand_date) ==
    /\ datesParsed(new_ingestion_date, cand_date)
    /\ new_ingestion_date.t <= candInstant(cand_date)

sessionBase(stem) == strip(session_sub(stem), DashUnderscore)

\* a title comparison that never finds two titles equal
sameTitle_never(new_title, candidate_title) == FALSE

\* new_title.lower().strip() == cand_title.lower().strip()
sameTitle(new_title, candidate_title) ==
    strip(lower(new_title), Whitespace) = strip(lower(candidate_title), Whitespace)

\* the rules with the session/date rule tried before the title rules
should_supersede_session_first(new_title, new_file_path, new_ingestion_date, candidate) ==
    LET similarity == ratio(lower(new_title), lower(candidate.title))
    IN  IF notNewer(new_ingestion_date, candidate.ingestion_date)
            THEN [supersede |-> FALSE, reason |-> Reason("newer_document_required", 0)]
        ELSE IF /\ session_search(new_file_path.stem)
                /\ session_search(candidate.file_path.stem)
                /\ lower(sessionBase(new_file_path.stem))
                       = lower(sessionBase(candidate.file_path.stem))
            THEN [supersede |-> TRUE, reason |-> Reason("session_document_pattern", 0)]
        ELSE IF sameTitle(new_title, candidate.title)
            THEN [supersede |-> TRUE, reason |-> Reason("exact_title_match", 0)]
        ELSE IF ratioAtLeast(similarity, TITLE_SIMILARITY_THRESHOLD)
            THEN [supersede |-> TRUE, reason |-> Reason("title_similarity", fmt2(similarity))]
        ELSE [supersede |-> FALSE, reason |-> Reason("no_supersession", 0)]

should_supersede(new_title, new_file_path, new_ingestion_date, candidate) ==
    LET similarity == ratio(lower(new_title), lower(candidate.title))
    IN  IF notNewer(new_ingestion_date, candidate.ingestion_date)
            THEN [supersede |-> FALSE, reason |-> Reason("newer_document_required", 0)]
        ELSE IF sameTitle(new_title, candidate.title)
            THEN [supersede |-> TRUE, reason |-> Reason("exact_title_match", 0)]
        ELSE IF ratioAtLeast(similarity, TITLE_SIMILARITY_THRESHOLD)
            THEN [supersede |-> TRUE, reason |-> Reason("title_similarity", fmt2(similarity))]
        ELSE IF /\ session_search(new_file_path.stem)
                /\ session_search(candidate.file_path.stem)
                /\ lower(sessionBase(new_file_path.stem))
                       = lower(sessionBase(candidate.file_path.stem))
            THEN [supersede |-> TRUE, reason |-> Reason("session_document_pattern", 0)]
        ELSE [supersede |-> FALSE, reason |-> Reason("no_supersession", 0)]

(***************************************************************************)
(* Titles and files the documents are drawn from                           *)
(***************************************************************************)

tAbc == <<"a", "b", "c">>
tAbcd == <<"a", "b", "c", "d">>
tABC == <<"A", "B", "C">>
tAbcSp == <<"a", "b", "c", " ">>
tSpAbc == <<" ", "a", "b", "c">>
tXy == <<"x", "y">>
tSessionReport ==
    <<"S", "e", "s", "s", "i", "o", "n", " ", "R", "e", "p", "o", "r", "t">>

Titles == {tAbc, tAbcd, tABC, tAbcSp, tSpAbc, tXy, tSessionReport}

dirD == <<"/", "d">>
dirE == <<"/", "e">>
extMd == <<".", "m", "d">>

\* /d/session-2024-01-01.md
fSession0101 == [parent |-> dirD, suffix |-> extMd, stem |->
    <<"s", "e", "s", "s", "i", "o", "n", "-", "2", "0", "2", "4", "-", "0", "1", "-", "0", "1">>]
\* /d/session-2024-02-01.md
fSession0201 == [parent |-> dirD, suffix |-> extMd, stem |->
    <<"s", "e", "s", "s", "i", "o", "n", "-", "2", "0", "2", "4", "-", "0", "2", "-", "0", "1">>]
\* /e/x-session_2024-3-7.md
fXSession == [parent |-> dirE, suffix |-> extMd, stem |->
    <<"x", "-", "s", "e", "s", "s", "i", "o", "n", "_", "2", "0", "2", "4", "-", "3", "-", "7">>]
\* /e/X_Session2024_03_08.md
fXSessionUpper == [parent |-> dirE, suffix |-> extMd, stem |->
    <<"X", "_", "S", "e", "s", "s", "i", "o", "n", "2", "0", "2", "4", "_", "0", "3", "_", "0", "8">>]
\* /e/notes.md
fNotes == [parent |-> dirE, suffix |-> extMd, stem |-> <<"n", "o", "t", "e", "s">>]

Files == {fSession0101, fSession0201, fXSession, fXSessionUpper, fNotes}

(***************************************************************************)
(* State                                                                   *)
(***************************************************************************)
VARIABLES
    dIn,        \* _should_supersede: the arguments of the call
    dOut,       \* _should_supersede: the returned (bool, reason), once called
    docs,       \* the store's Document nodes, by document_id
    edges,      \* the store's SUPERSEDES relationships
    ingestedAt, \* ingest_document's ingestion_date of each stored document
    now,        \* the clock read by datetime.now()
    stats,      \* BatchIngester.stats
    last,       \* the last store operation and what it returned
    prevDocs,   \* the Document nodes before the last store operation
    index,      \* search: the indexed chunks, their scores for the query, their documents
    request,    \* search: the arguments k and only_latest
    run,        \* search: what the last run of search_chunks retrieved, fused and returned
    generator,  \* EmbeddingGenerator: use_cache and whether a gpu_client was given
    cache,      \* EmbeddingGenerator._cache
    embedStats, \* EmbeddingGenerator.stats
    calls,      \* the calls made on the generator, with what each returned
    cache_dir,  \* EmbeddingCache: the .pkl files of the cache directory, by cache key
    cacheStats, \* EmbeddingCache.stats
    cacheCalls, \* the calls made on the EmbeddingCache, with what each returned
    chunker,    \* TextChunker: the constructor's arguments and what it set or raised
    chunked,    \* the last call of chunk_text / chunk_text_smart and its result
    batch,      \* ingest_directory: its files, the outcome of each, the statistics
    detectors,  \* the detection calls in progress: where each is, what it has found
    retry,      \* a call through retry_with_exponential_backoff: its loop variables
    pipeline    \* ingest_document step by step: its chunks, its statistics, the store

decideVars == <<dIn, dOut>>
storeVars == <<docs, edges, ingestedAt, now, stats, last, prevDocs>>
searchVars == <<index, request, run>>
embedVars == <<generator, cache, embedStats, calls>>
fileCacheVars == <<cache_dir, cacheStats, cacheCalls>>
chunkerVars == <<chunker, chunked>>
batchVars == <<batch>>
detectVars == <<detectors>>
retryVars == <<retry>>
pipelineVars == <<pipeline>>
vars == <<dIn, dOut, docs, edges, ingestedAt, now, stats, last, prevDocs,
          index, request, run, generator, cache, embedStats, calls,
          cache_dir, cacheStats, cacheCalls, chunker, chunked, batch,
          detectors, retry, pipeline>>


NotCalled == [called |-> FALSE, supersede |-> FALSE, reason |-> Reason("none", 0)]

DecideIdle == dIn = <<>> /\ dOut = NotCalled

NoRun == [called |-> FALSE, semantic_results |-> <<>>, keyword_results |-> <<>>,
          combined |-> <<>>, raised |-> FALSE, returned |-> <<>>,
          vector_failed |-> FALSE, keyword_failed |-> FALSE]

SearchIdle == index = <<>> /\ request = <<>> /\ run = NoRun

NoEmbedStats == [embeddings_generated |-> 0, cache_hits |-> 0, cache_misses |-> 0,
                 errors |-> 0]

NoCacheStats == [hits |-> 0, misses |-> 0, writes |-> 0]

FileCacheIdle == cache_dir = <<>> /\ cacheStats = NoCacheStats /\ cacheCalls = <<>>

NoChunker == [constructed |-> "no"]

NoChunks == [called |-> "none"]

ChunkerIdle == chunker = NoChunker /\ chunked = NoChunks

NoBatch == [called |-> FALSE]

BatchIdle == batch = NoBatch

NoDetectors == <<>>

DetectIdle == detectors = NoDetectors

NoRetry == [called |-> FALSE]

RetryIdle == retry = NoRetry

NoPipeline == [called |-> FALSE]

PipelineIdle == pipeline = NoPipeline

EmbedIdle ==
    /\ generator = [use_cache |-> TRUE, gpu_client |-> FALSE]
    /\ cache = <<>>
    /\ embedStats = NoEmbedStats
    /\ calls = <<>>

(***************************************************************************)
(* The document store: Document nodes and SUPERSEDES relationships         *)
(***************************************************************************)

MaxOps == 5

DocIds == {"d1", "d2", "d3"}

fileOf == [d \in DocIds |->
              CASE d = "d1" -> fSession0101
                [] d = "d2" -> fSession0201
                [] OTHER -> fNotes]

\* NodeManager._generate_id(file_path): one identifier per path
generate_id(file_path) == CHOOSE d \in DocIds : fileOf[d] = file_path

StoreTitles == {tSessionReport, tSpAbc, tXy}

NoDoc == [present |-> FALSE, title |-> <<>>, is_latest |-> "null",
          superseded_by |-> "null", version |-> <<>>,
          ingestion_date |-> NoneDate]

EmptyStore == [d \in DocIds |-> NoDoc]

\* MERGE (d:Document {document_id}) SET d += properties: the properties passed
\* are title, file_path, timestamps of creation and file modification, and
\* metadata; a node that exists keeps every other property
create_document_node(store, file_path, title) ==
    LET document_id == generate_id(file_path)
    IN  [store EXCEPT ![document_id] =
            IF @.present THEN [@ EXCEPT !.title = title]
            ELSE [NoDoc EXCEPT !.present = TRUE, !.title = title]]

\* a mark that forgets the is_latest flag
mark_document_superseded_pointer_only(store, document_id, superseded_by) ==
    IF store[document_id].present
        THEN [store EXCEPT ![document_id].superseded_by = superseded_by]
        ELSE store

\* MATCH (d) SET d.is_latest = false, d.superseded_by = ..., d.superseded_at = ...
mark_document_superseded(store, document_id, superseded_by) ==
    IF store[document_id].present
        THEN [store EXCEPT ![document_id].is_latest = "false",
                           ![document_id].superseded_by = superseded_by]
        ELSE store

\* MATCH newer, older MERGE (newer)-[r:SUPERSEDES]->(older) SET r.reason = ...
create_supersedes_relationship(store, es, newer_document_id, older_document_id, reason) ==
    IF store[newer_document_id].present /\ store[older_document_id].present
        THEN {e \in es : ~(e.newer = newer_document_id /\ e.older = older_document_id)}
             \cup {[newer |-> newer_document_id, older |-> older_document_id,
                    reason |-> reason]}
        ELSE es

\* DETACH DELETE d: the node goes with every relationship it takes part in
delete_document_and_chunks(store, document_id) ==
    [store EXCEPT ![document_id] = NoDoc]

detachEdges(es, document_id) ==
    {e \in es : e.newer # document_id /\ e.older # document_id}

\* initialize_temporal_schema, phase 1: MATCH (d) WHERE d.version IS NULL SET ...
initialize_temporal_schema(store) ==
    [d \in DocIds |->
        IF store[d].present /\ store[d].version = <<>>
            THEN [store[d] EXCEPT !.version = <<1>>, !.is_latest = "true",
                                  !.superseded_by = "null"]
            ELSE store[d]]

(***************************************************************************)
(* SupersessionDetector                                                    *)
(***************************************************************************)

CandidateLimit == 50

candidateRecord(store, d) ==
    [document_id |-> d, title |-> store[d].title, file_path |-> fileOf[d],
     ingestion_date |-> store[d].ingestion_date]

\* the rows ORDER BY d.ingestion_date DESC LIMIT 50 keeps: all of them while
\* there are at most 50
limitRecent(ids, store) ==
    IF Cardinality(ids) <= CandidateLimit THEN ids
    ELSE CHOOSE keep \in SUBSET ids :
            /\ Cardinality(keep) = CandidateLimit
            /\ \A a \in keep, b \in ids \ keep :
                   candInstant(store[a].ingestion_date)
                       >= candInstant(store[b].ingestion_date)

\* the rows of the candidate query when the store answers it
candidateRows(store, new_document_id, new_title, new_file_path) ==
    LET new_parent == lower(new_file_path.parent)
        stem == lower(new_file_path.stem)
        has_base == session_search(stem)
        base_name == strip(session_sub(stem), DashUnderscore)
        title_prefix == join(take(split(lower(new_title)), 3))
        rows == {d \in DocIds :
                    /\ store[d].present
                    /\ d # new_document_id
                    /\ store[d].is_latest = "true"
                    /\ \/ Contains(pathStr(fileOf[d]), new_parent)
                       \/ StartsWith(lower(store[d].title), title_prefix)
                       \/ has_base /\ Contains(lower(store[d].title), base_name)}
    IN  limitRecent(rows, store)

\* a candidate search that returns the rows whether or not the query fails
find_supersession_candidates_failure_ignored(store, new_document_id, new_title, new_file_path, query_fails) ==
    candidateRows(store, new_document_id, new_title, new_file_path)

\* _find_supersession_candidates: the rows of the query, or [] when
\* execute_read raises
find_supersession_candidates(store, new_document_id, new_title, new_file_path, query_fails) ==
    IF query_fails THEN {}
    ELSE candidateRows(store, new_document_id, new_title, new_file_path)

RECURSIVE markAll(_, _, _)
markAll(store, ids, superseded_by) ==
    IF ids = {} THEN store
    ELSE LET c == CHOOSE c \in ids : TRUE
         IN  markAll(mark_document_superseded(store, c, superseded_by),
                     ids \ {c}, superseded_by)

RECURSIVE linkAll(_, _, _, _)
linkAll(store, es, hits, newer) ==
    IF hits = {} THEN es
    ELSE LET h == CHOOSE h \in hits : TRUE
         IN  linkAll(store,
                     create_supersedes_relationship(store, es, newer, h.document_id, h.reason),
                     hits \ {h}, newer)

\* the loop body of detect_and_mark_supersession for the candidates decided
\* positively: mark each, link each, append each to results["superseded"]
applyHits(store, es, new_document_id, hits) ==
    [docs |-> markAll(store, {h.document_id : h \in hits}, new_document_id),
     edges |-> linkAll(store, es, hits, new_document_id),
     superseded |-> hits]

\* the candidates with their decisions
decisions(store, candidates, new_title, new_file_path, new_ingestion_date) ==
    {[document_id |-> c,
      decision |-> should_supersede(new_title, new_file_path, new_ingestion_date,
                                    candidateRecord(store, c))] : c \in candidates}

positive(ds) ==
    {[document_id |-> d.document_id, reason |-> d.decision.reason] :
        d \in {d \in ds : d.decision.supersede}}

\* detect_and_mark_supersession: the store after the call and results["superseded"]
detect_and_mark_supersession(store, es, new_document_id, new_title, new_file_path, new_ingestion_date, query_fails) ==
    applyHits(store, es, new_document_id,
              positive(decisions(store,
                                 find_supersession_candidates(store, new_document_id,
                                                              new_title, new_file_path,
                                                              query_fails),
                                 new_title, new_file_path, new_ingestion_date)))

(***************************************************************************)
(* BatchIngester.ingest_document with the default configuration            *)
(* (update_existing, detect_supersession, no force_reingestion)            *)
(***************************************************************************)

NoStats == [documents_processed |-> 0, documents_failed |-> 0, documents_skipped |-> 0,
            documents_updated |-> 0, documents_superseded |-> 0]

NoOp == [op |-> "none", document_id |-> "null", superseded |-> {}, dry_run |-> FALSE,
         query_failed |-> FALSE, order |-> <<>>]

StoreIdle ==
    /\ docs = EmptyStore
    /\ edges = {}
    /\ ingestedAt = [d \in DocIds |-> 0]
    /\ now = 0
    /\ stats = NoStats
    /\ last = NoOp
    /\ prevDocs = EmptyStore

\* The inputs of one ingestion are file_path: the file; title: the title its
\* parser extracts; modified: whether should_update_document finds the file
\* newer than the stored node; query_fails: whether the store fails the
\* candidate query of the detection.

\* lines 162-208 once detection has returned det: the run statistics are updated
IngestFinish(document_id, existing, query_fails, det) ==
    /\ docs' = det.docs
    /\ edges' = det.edges
    /\ ingestedAt' = [ingestedAt EXCEPT ![document_id] = now']
    /\ stats' = [stats EXCEPT
          !.documents_updated = IF existing THEN @ + 1 ELSE @,
          !.documents_superseded = @ + Cardinality(det.superseded),
          !.documents_processed = @ + 1]
    /\ last' = [NoOp EXCEPT !.op = "ingest", !.document_id = document_id,
                            !.superseded = det.superseded,
                            !.query_failed = query_fails]

\* lines 103-162 for a file that is new or newer than its node: the node is
\* deleted with its relationships, created again, and detection runs
IngestReplace(document_id, file_path, title, existing, query_fails) ==
    IngestFinish(document_id, existing, query_fails,
        detect_and_mark_supersession(
            create_document_node(
                IF existing THEN delete_document_and_chunks(docs, document_id) ELSE docs,
                file_path, title),
            IF existing THEN detachEdges(edges, document_id) ELSE edges,
            document_id, title, file_path, IsoDate(now'), query_fails))

IngestSkip(document_id) ==
    /\ stats' = [stats EXCEPT !.documents_skipped = @ + 1]
    /\ last' = [NoOp EXCEPT !.op = "skip", !.document_id = document_id]
    /\ UNCHANGED <<docs, edges, ingestedAt>>

\* ingest_document(file_path)
IngestDocument(file_path, title, modified, query_fails) ==
    /\ now < MaxOps
    /\ now' = now + 1
    /\ prevDocs' = docs
    /\ IF docs[generate_id(file_path)].present /\ ~modified
         THEN IngestSkip(generate_id(file_path))
         ELSE IngestReplace(generate_id(file_path), file_path, title,
                            docs[generate_id(file_path)].present, query_fails)
    /\ UNCHANGED decideVars
    /\ UNCHANGED searchVars
    /\ UNCHANGED embedVars
    /\ UNCHANGED <<fileCacheVars, chunkerVars, batchVars>>
    /\ UNCHANGED <<detectVars, retryVars, pipelineVars>>

\* rkg init-temporal
InitTemporal ==
    /\ now < MaxOps
    /\ now' = now + 1
    /\ prevDocs' = docs
    /\ docs' = initialize_temporal_schema(docs)
    /\ last' = [NoOp EXCEPT !.op = "init_temporal"]
    /\ UNCHANGED <<edges, ingestedAt, stats>>
    /\ UNCHANGED decideVars
    /\ UNCHANGED searchVars
    /\ UNCHANGED embedVars
    /\ UNCHANGED <<fileCacheVars, chunkerVars, batchVars>>
    /\ UNCHANGED <<detectVars, retryVars, pipelineVars>>


\* ORDER BY d.ingestion_date ASC: instants ascending, nodes without the
\* property last; rows with equal keys come in any order
sortsBefore(store, a, b) ==
    LET da == store[a].ingestion_date
        db == store[b].ingestion_date
    IN  \/ da.kind # "iso" /\ db.kind # "iso"
        \/ da.kind = "iso" /\ db.kind # "iso"
        \/ da.kind = "iso" /\ db.kind = "iso" /\ da.t <= db.t

\* the possible results of the query of retroactively_detect_supersessions
latestAscending(store) ==
    LET ids == {d \in DocIds : store[d].present /\ store[d].is_latest = "true"}
        n == Cardinality(ids)
    IN  {o \in [1..n -> ids] :
            /\ \A i, j \in 1..n : i # j => o[i] # o[j]
            /\ \A i, j \in 1..n : i < j => sortsBefore(store, o[i], o[j])}

\* _should_supersede(later_data[...], doc_data) on two rows of the query
retroDecision(store, later, doc) ==
    should_supersede(store[later].title, fileOf[later], store[later].ingestion_date,
                     candidateRecord(store, doc))

\* the decision for every pair of rows (doc, another)
retroDecisions(store, order) ==
    [i \in 1..Len(order) |->
        [j \in 1..Len(order) |->
            IF j # i THEN retroDecision(store, order[j], order[i])
            ELSE [supersede |-> FALSE, reason |-> Reason("none", 0)]]]

\* every other row, the earlier ones too
otherRows(order, i) == (1..Len(order)) \ {i}

\* documents[i+1:], the rows after row i
laterRows(order, i) == (i + 1)..Len(order)

leastOf(js) == IF js = {} THEN 0 ELSE CHOOSE j \in js : \A k \in js : j <= k

\* the first later row that supersedes row i, or 0: the inner loop with its break
firstSuccessor(dec, order, i) ==
    leastOf({j \in laterRows(order, i) :
                dec[i][j].supersede /\ dec[i][j].reason.kind # "no_supersession"})

foundRow(dec, order, i, j) ==
    [older |-> order[i], newer |-> order[j], reason |-> dec[i][j].reason]

foundRows(dec, order, succ) ==
    {foundRow(dec, order, i, succ[i]) : i \in {i \in 1..Len(order) : succ[i] # 0}}

successors(dec, order) == [i \in 1..Len(order) |-> firstSuccessor(dec, order, i)]

foundIn(dec, order) == foundRows(dec, order, successors(dec, order))

\* results["superseded_documents"]
retroFound(store, order) == foundIn(retroDecisions(store, order), order)

RECURSIVE retroMark(_, _)
retroMark(store, found) ==
    IF found = {} THEN store
    ELSE LET f == CHOOSE f \in found : TRUE
         IN  retroMark(mark_document_superseded(store, f.older, f.newer), found \ {f})

RECURSIVE retroLink(_, _, _)
retroLink(store, es, found) ==
    IF found = {} THEN es
    ELSE LET f == CHOOSE f \in found : TRUE
         IN  retroLink(store,
                       create_supersedes_relationship(store, es, f.newer, f.older, f.reason),
                       found \ {f})

\* a pass that writes whether or not dry_run is set
RetroApply_always_writes(dry_run, order, found) ==
    /\ docs' = retroMark(docs, found)
    /\ edges' = retroLink(docs, edges, found)
    /\ last' = [NoOp EXCEPT !.op = "retro", !.dry_run = dry_run, !.order = order,
                            !.superseded =
                                {[document_id |-> f.older, reason |-> f.reason,
                                  newer |-> f.newer] : f \in found}]

\* the writes of one pass and its report
RetroApply(dry_run, order, found) ==
    /\ docs' = IF dry_run THEN docs ELSE retroMark(docs, found)
    /\ edges' = IF dry_run THEN edges ELSE retroLink(docs, edges, found)
    /\ last' = [NoOp EXCEPT !.op = "retro", !.dry_run = dry_run, !.order = order,
                            !.superseded =
                                {[document_id |-> f.older, reason |-> f.reason,
                                  newer |-> f.newer] : f \in found}]

\* rkg detect-supersessions [--dry-run]
RetroScan(dry_run) ==
    /\ now < MaxOps
    /\ now' = now + 1
    /\ prevDocs' = docs
    /\ \E order \in latestAscending(docs) : RetroApply(dry_run, order, retroFound(docs, order))
    /\ UNCHANGED <<ingestedAt, stats>>
    /\ UNCHANGED decideVars
    /\ UNCHANGED searchVars
    /\ UNCHANGED embedVars
    /\ UNCHANGED <<fileCacheVars, chunkerVars, batchVars>>
    /\ UNCHANGED <<detectVars, retryVars, pipelineVars>>

InitStore ==
    /\ StoreIdle
    /\ DecideIdle
    /\ SearchIdle
    /\ EmbedIdle
    /\ FileCacheIdle
    /\ ChunkerIdle
    /\ BatchIdle
    /\ DetectIdle
    /\ RetryIdle
    /\ PipelineIdle

NextStore ==
    \/ \E f \in {fileOf[d] : d \in DocIds}, title \in StoreTitles,
          modified \in BOOLEAN, query_fails \in BOOLEAN :
          IngestDocument(f, title, modified, query_fails)
    \/ InitTemporal
    \/ \E dry_run \in BOOLEAN : RetroScan(dry_run)

Spec == InitStore /\ [][NextStore]_vars

(***************************************************************************)
(* _should_supersede as a function of its arguments                        *)
(***************************************************************************)

Candidates ==
    [document_id : {"cand"}, title : Titles, file_path : Files, ingestion_date : DateValues]

DecideInputs ==
    [new_title : Titles, new_file_path : Files, new_ingestion_date : DateValues,
     candidate : Candidates]

InitDecide ==
    /\ dIn \in DecideInputs
    /\ dOut = NotCalled
    /\ StoreIdle
    /\ SearchIdle
    /\ EmbedIdle
    /\ FileCacheIdle
    /\ ChunkerIdle
    /\ BatchIdle
    /\ DetectIdle
    /\ RetryIdle
    /\ PipelineIdle

CallShouldSupersede ==
    /\ ~dOut.called
    /\ LET r == should_supersede(dIn.new_title, dIn.new_file_path,
                                 dIn.new_ingestion_date, dIn.candidate)
       IN  dOut' = [called |-> TRUE, supersede |-> r.supersede, reason |-> r.reason]
    /\ UNCHANGED dIn
    /\ UNCHANGED storeVars
    /\ UNCHANGED searchVars
    /\ UNCHANGED embedVars
    /\ UNCHANGED <<fileCacheVars, chunkerVars, batchVars>>
    /\ UNCHANGED <<detectVars, retryVars, pipelineVars>>

NextDecide == CallShouldSupersede

SpecDecide == InitDecide /\ [][NextDecide]_vars

(***************************************************************************)
(* Claims about the decision rule (SpecDecide)                             *)
(***************************************************************************)

dBothDated ==
    dIn.new_ingestion_date.kind = "iso" /\ dIn.candidate.ingestion_date.kind = "iso"

dCandNotOlder ==
    dBothDated /\ dIn.candidate.ingestion_date.t >= dIn.new_ingestion_date.t

dSameTitle ==
    strip(lower(dIn.new_title), Whitespace) = strip(lower(dIn.candidate.title), Whitespace)

dSimilarTitle ==
    LET r == ratio(lower(dIn.new_title), lower(dIn.candidate.title))
    IN  100 * r[1] >= 85 * r[2]

dSessionPair ==
    /\ session_search(dIn.new_file_path.stem)
    /\ session_search(dIn.candidate.file_path.stem)
    /\ lower(strip(session_sub(dIn.new_file_path.stem), DashUnderscore))
           = lower(strip(session_sub(dIn.candidate.file_path.stem), DashUnderscore))

\* C2: whenever the candidate's ingestion timestamp is greater than or equal to
\* the new document's, _should_supersede returns (False,
\* "newer_document_required"), whatever the titles and file names are; hence a
\* positive decision is only ever returned for a strictly newer document.
C2_TimestampMonotonic ==
    dOut.called =>
        /\ dCandNotOlder =>
              ~dOut.supersede /\ dOut.reason.kind = "newer_document_required"
        /\ (dOut.supersede /\ dBothDated) =>
              dIn.new_ingestion_date.t > dIn.candidate.ingestion_date.t

\* the call was made for a candidate of the same instant whose title and
\* session file name both match the new document's
C2_Witness ==
    /\ dOut.called
    /\ dBothDated
    /\ dIn.candidate.ingestion_date.t = dIn.new_ingestion_date.t
    /\ dSameTitle
    /\ dSessionPair

dSessionReports ==
    /\ dOut.called
    /\ dIn.new_title = tSessionReport
    /\ dIn.candidate.title = tSessionReport
    /\ dIn.new_file_path = fSession0201
    /\ dIn.candidate.file_path = fSession0101
    /\ dBothDated
    /\ dIn.candidate.ingestion_date.t < dIn.new_ingestion_date.t

\* C4, as stated: for two documents titled "Session Report" ingested at t1 and
\* t2 > t1 from session-2024-01-01.md and session-2024-02-01.md, the second
\* supersedes the first and the reason is session_document_pattern.
C4_SessionReason ==
    dSessionReports =>
        dOut.supersede /\ dOut.reason = Reason("session_document_pattern", 0)

\* C4: for two documents titled "Session Report" ingested at t1 and t2 > t1
\* from session-2024-01-01.md and session-2024-02-01.md, the decision for the
\* second against the first is to supersede, and the reason is
\* exact_title_match: the title rule is tried before the session/date rule.
C4_ExactTitleReason ==
    dSessionReports =>
        dOut.supersede /\ dOut.reason = Reason("exact_title_match", 0)

\* the decision was taken for the two session reports, whose file names
\* match the session/date pattern with equal base names
C4_Witness ==
    dSessionReports /\ dSessionPair /\ dOut.supersede

(***************************************************************************)
(* Claims about the document store (Spec)                                  *)
(***************************************************************************)

SupersedesEdge(newer, older) ==
    \E e \in edges : e.newer = newer /\ e.older = older

\* the last operation ingested document b while a, another document with the
\* identical title, was a latest document ingested strictly earlier
OlderTwin(a, b) ==
    /\ last.op = "ingest"
    /\ last.document_id = b
    /\ a # b
    /\ prevDocs[a].present
    /\ prevDocs[a].is_latest = "true"
    /\ prevDocs[a].title = docs[b].title
    /\ ingestedAt[a] < ingestedAt[b]

\* C1, as stated: when detection runs for B, every latest document A with the
\* identical title and a strictly older ingestion is marked superseded by B
\* (is_latest false, superseded_by = B, SUPERSEDES edge B -> A), and the
\* detection marks no document superseded by one ingested before it.
C1_SupersessionOrdering ==
    /\ \A a, b \in DocIds :
          OlderTwin(a, b) =>
              /\ docs[a].is_latest = "false"
              /\ docs[a].superseded_by = b
              /\ SupersedesEdge(b, a)
    /\ last.op = "ingest" =>
          \A h \in last.superseded :
              ingestedAt[h.document_id] < ingestedAt[last.document_id]

\* C5: in every state of the store reached by ingestion, re-ingestion with
\* its detection, schema initialisation and retroactive scans, each document
\* has is_latest = false if and only if its superseded_by identifier is set.
C5_LatestIffNotSuperseded ==
    \A d \in DocIds :
        docs[d].present =>
            (docs[d].is_latest = "false" <=> docs[d].superseded_by # "null")

\* a document has been marked superseded while its successor is a latest
\* document
C5_Witness ==
    \E d, n \in DocIds :
        /\ docs[d].present
        /\ docs[d].is_latest = "false"
        /\ docs[d].superseded_by = n
        /\ docs[n].present
        /\ docs[n].is_latest # "false"

(***************************************************************************)
(* Search: the two retrieval queries and HybridSearch                      *)
(*                                                                         *)
(* Scores are in tenths and weights in tenths, so hybrid scores are in     *)
(* hundredths.  For the scores drawn below, two hybrid scores are equal    *)
(* only when both component scores are, and the products 0.7 * s + 0.3 * k *)
(* computed in binary floating point keep the order of the exact values.   *)
(***************************************************************************)

MaxK == 2

ChunkIds == {"c1", "c2", "c3"}
SearchDocs == {"dA", "dB"}

\* (d:Document)-[:CONTAINS]->(c)
documentOf == [c \in ChunkIds |-> IF c = "c1" THEN "dA" ELSE "dB"]

\* the similarity of each chunk's embedding to the query's; 0: the chunk is
\* not in the vector index
SemanticScores == [c \in ChunkIds |-> IF c = "c1" THEN {0, 9} ELSE {0, 4}]

\* the full-text score of each chunk for the query; 0: no match
KeywordScores == [c \in ChunkIds |-> IF c = "c3" THEN {0, 6, 8} ELSE {0, 8}]

Indexes ==
    [is_latest : {f \in [SearchDocs -> {"true", "false", "null"}] : f["dA"] # "null"},
     ingestion_date : {f \in [SearchDocs -> {NoneDate, IsoDate(1), IsoDate(2)}] :
                          f["dA"] # IsoDate(2) /\ f["dB"] # IsoDate(1)},
     semantic : {f \in [ChunkIds -> {0, 4, 9}] : \A c \in ChunkIds : f[c] \in SemanticScores[c]},
     keyword : {f \in [ChunkIds -> {0, 6, 8}] : \A c \in ChunkIds : f[c] \in KeywordScores[c]}]

Requests == [k : 1..MaxK, only_latest : BOOLEAN]

\* HybridSearch.__init__ defaults, in tenths
semantic_weight == 7
keyword_weight == 3

row(idx, c, score) ==
    [chunk_id |-> c, document_id |-> documentOf[c],
     ingestion_date |-> idx.ingestion_date[documentOf[c]], score |-> score]

\* WHERE $only_latest IS NULL OR d.is_latest = true OR d.is_latest IS NULL:
\* the parameter is a Python bool, never null
latestFilter(idx, c, only_latest) ==
    \/ only_latest \notin BOOLEAN
    \/ idx.is_latest[documentOf[c]] = "true"
    \/ idx.is_latest[documentOf[c]] = "null"

\* ORDER BY score DESC, d.ingestion_date DESC: r1 may come before r2; a
\* descending order puts the nodes without the property first
cypherDescending(r1, r2) ==
    \/ r1.score > r2.score
    \/ /\ r1.score = r2.score
       /\ \/ r1.ingestion_date.kind # "iso"
          \/ /\ r2.ingestion_date.kind = "iso"
             /\ r1.ingestion_date.t >= r2.ingestion_date.t

\* the orders in which the store may return a set of rows
orderedRows(rows) ==
    {o \in [1..Cardinality(rows) -> rows] :
        /\ \A i, j \in 1..Cardinality(rows) : i # j => o[i] # o[j]
        /\ \A i, j \in 1..Cardinality(rows) : i < j => cypherDescending(o[i], o[j])}

least(a, b) == IF a <= b THEN a ELSE b

\* db.index.vector.queryNodes('chunk_embeddings', $k, $embedding): the sets
\* of k nearest chunks the index may yield
nearest(idx, k) ==
    {top \in SUBSET {c \in ChunkIds : idx.semantic[c] > 0} :
        /\ Cardinality(top) = least(k, Cardinality({c \in ChunkIds : idx.semantic[c] > 0}))
        /\ \A a \in top, b \in {c \in ChunkIds : idx.semantic[c] > 0} \ top :
               idx.semantic[a] >= idx.semantic[b]}

\* VectorIndexManager.vector_search_chunks with min_score = 0.0, on the
\* chunks the index yielded: filtered, ordered, not limited again
vector_search_chunks(idx, top, only_latest) ==
    orderedRows({row(idx, c, idx.semantic[c]) :
                    c \in {c \in top : latestFilter(idx, c, only_latest)}})

limited(o, k) == SubSeq(o, 1, least(k, Len(o)))

\* KeywordSearch.search_chunks: the matching chunks filtered, ordered, LIMIT $k
keyword_search_chunks(idx, k, only_latest) ==
    {limited(o, k) :
        o \in orderedRows({row(idx, c, idx.keyword[c]) :
                              c \in {c \in ChunkIds : /\ idx.keyword[c] > 0
                                                      /\ latestFilter(idx, c, only_latest)}})}

\* the chunk ids of a result list, and dict.get(chunk_id, 0.0) on its scores
chunkIdsOf(results) == {results[i].chunk_id : i \in 1..Len(results)}

scoreOf(results, chunk_id) ==
    IF chunk_id \in chunkIdsOf(results)
        THEN (CHOOSE r \in {results[i] : i \in 1..Len(results)} : r.chunk_id = chunk_id).score
        ELSE 0

\* the weights exchanged
hybrid_score_swapped(semantic_score, keyword_score) ==
    keyword_weight * semantic_score + semantic_weight * keyword_score

\* self.semantic_weight * semantic_score + self.keyword_weight * keyword_score
hybrid_score(semantic_score, keyword_score) ==
    semantic_weight * semantic_score + keyword_weight * keyword_score

\* the row of a chunk id: the semantic row when there is one
result_data(semantic_results, keyword_results, chunk_id) ==
    IF chunk_id \in chunkIdsOf(semantic_results)
        THEN CHOOSE r \in {semantic_results[i] : i \in 1..Len(semantic_results)} :
                 r.chunk_id = chunk_id
        ELSE CHOOSE r \in {keyword_results[i] : i \in 1..Len(keyword_results)} :
                 r.chunk_id = chunk_id

fused(semantic_results, keyword_results, chunk_id) ==
    [chunk_id |-> chunk_id,
     document_id |-> result_data(semantic_results, keyword_results, chunk_id).document_id,
     ingestion_date |->
         result_data(semantic_results, keyword_results, chunk_id).ingestion_date,
     score |-> result_data(semantic_results, keyword_results, chunk_id).score,
     hybrid_score |-> hybrid_score(scoreOf(semantic_results, chunk_id),
                                   scoreOf(keyword_results, chunk_id)),
     semantic_score |-> scoreOf(semantic_results, chunk_id),
     keyword_score |-> scoreOf(keyword_results, chunk_id)]

\* the orders in which a Python set of strings may be iterated: the order
\* follows the strings' hashes, which are salted anew in every process
setIterations(ids) ==
    {o \in [1..Cardinality(ids) -> ids] :
        \A i, j \in 1..Cardinality(ids) : i # j => o[i] # o[j]}

\* _combine_results, iterating all_chunk_ids in the order given
combine_results(semantic_results, keyword_results, iteration) ==
    [i \in 1..Len(iteration) |-> fused(semantic_results, keyword_results, iteration[i])]

\* the key (hybrid_score, ingestion_date) of a is greater than that of b
keyGreater(a, b) ==
    \/ a.hybrid_score > b.hybrid_score
    \/ /\ a.hybrid_score = b.hybrid_score
       /\ a.ingestion_date.kind = "iso"
       /\ b.ingestion_date.kind = "iso"
       /\ a.ingestion_date.t > b.ingestion_date.t

\* comparing the keys of two entries of equal score compares their dates:
\* a string with None raises TypeError
sortRaises(combined) ==
    \E i, j \in 1..Len(combined) :
        /\ combined[i].hybrid_score = combined[j].hybrid_score
        /\ combined[i].ingestion_date.kind = "iso"
        /\ combined[j].ingestion_date.kind # "iso"

\* the place of combined[i] after list.sort(key=..., reverse=True), which is
\* stable: entries of equal keys keep their order
placeOf(combined, i) ==
    1 + Cardinality({j \in 1..Len(combined) : keyGreater(combined[j], combined[i])})
      + Cardinality({j \in 1..(i - 1) : /\ ~keyGreater(combined[j], combined[i])
                                        /\ ~keyGreater(combined[i], combined[j])})

sorted(combined) ==
    [p \in 1..Len(combined) |->
        combined[CHOOSE i \in 1..Len(combined) : placeOf(combined, i) = p]]

\* what one run of search_chunks retrieved, fused and returned
runRecord(semantic_results, keyword_results, combined, k, keyword_fails) ==
    [called |-> TRUE,
     vector_failed |-> FALSE,
     keyword_failed |-> keyword_fails,
     semantic_results |-> semantic_results,
     keyword_results |-> keyword_results,
     combined |-> combined,
     raised |-> sortRaises(combined),
     returned |-> IF sortRaises(combined) THEN <<>> ELSE limited(sorted(combined), k)]

\* the store rejects the vector query: execute_read raises, and
\* vector_search_chunks raises it again, as it is or as a RuntimeError
\* (vector_index.py:78-86); SemanticSearch.search_chunks and
\* HybridSearch.search_chunks catch nothing, the keyword query is not made
vectorRaised ==
    [called |-> TRUE, vector_failed |-> TRUE, keyword_failed |-> FALSE,
     semantic_results |-> <<>>, keyword_results |-> <<>>, combined |-> <<>>,
     raised |-> TRUE, returned |-> <<>>]

\* KeywordSearch.search_chunks: except Exception: return []
keywordPath(idx, k, only_latest, keyword_fails) ==
    IF keyword_fails THEN {<<>>} ELSE keyword_search_chunks(idx, k, only_latest)

\* HybridSearch.search_chunks when the vector query succeeded
SearchFused(keyword_fails) ==
    \E top \in nearest(index, 2 * request.k) :
    \E semantic_results \in vector_search_chunks(index, top, request.only_latest) :
    \E keyword_results \in keywordPath(index, 2 * request.k, request.only_latest,
                                       keyword_fails) :
    \E iteration \in setIterations(chunkIdsOf(semantic_results)
                                       \cup chunkIdsOf(keyword_results)) :
        run' = runRecord(semantic_results, keyword_results,
                         combine_results(semantic_results, keyword_results, iteration),
                         request.k, keyword_fails)

\* HybridSearch.search_chunks(query, k, only_latest), each run in a process
\* of its own (rkg search); the store may reject the query of either path
SearchChunks(vector_fails, keyword_fails) ==
    /\ IF vector_fails THEN run' = vectorRaised ELSE SearchFused(keyword_fails)
    /\ UNCHANGED <<index, request>>
    /\ UNCHANGED decideVars
    /\ UNCHANGED storeVars
    /\ UNCHANGED embedVars
    /\ UNCHANGED <<fileCacheVars, chunkerVars, batchVars>>
    /\ UNCHANGED <<detectVars, retryVars, pipelineVars>>

InitSearch ==
    /\ index \in Indexes
    /\ request \in Requests
    /\ run = NoRun
    /\ DecideIdle
    /\ StoreIdle
    /\ EmbedIdle
    /\ FileCacheIdle
    /\ ChunkerIdle
    /\ BatchIdle
    /\ DetectIdle
    /\ RetryIdle
    /\ PipelineIdle

NextSearch == \E vector_fails, keyword_fails \in BOOLEAN : SearchChunks(vector_fails, keyword_fails)

SpecSearch == InitSearch /\ [][NextSearch]_vars

(***************************************************************************)
(* Claims about search (SpecSearch)                                        *)
(***************************************************************************)

unionIds == chunkIdsOf(run.semantic_results) \cup chunkIdsOf(run.keyword_results)

listScore(results, c) ==
    IF \E i \in 1..Len(results) : results[i].chunk_id = c
        THEN (CHOOSE r \in {results[i] : i \in 1..Len(results)} : r.chunk_id = c).score
        ELSE 0

scoresOf(results) == {<<results[i].chunk_id, results[i].score>> : i \in 1..Len(results)}

\* semantic {c1: 0.9, c2: 0.4} and keyword {c2: 0.8, c3: 0.6}
scenarioFour ==
    /\ run.called
    /\ scoresOf(run.semantic_results) = {<<"c1", 9>>, <<"c2", 4>>}
    /\ scoresOf(run.keyword_results) = {<<"c2", 8>>, <<"c3", 6>>}

\* C6: the fused list has exactly one entry per chunk identifier of the union
\* of the two result lists; its combined score is 0.7 * semantic score +
\* 0.3 * keyword score with a missing score taken as 0, and both component
\* scores are attached; semantic {c1: 0.9, c2: 0.4} and keyword {c2: 0.8,
\* c3: 0.6} give c1: 0.63, c2: 0.52, c3: 0.18.
C6_FusedScores ==
    run.called =>
        /\ {run.combined[i].chunk_id : i \in 1..Len(run.combined)} = unionIds
        /\ Len(run.combined) = Cardinality(unionIds)
        /\ \A i \in 1..Len(run.combined) :
              /\ run.combined[i].semantic_score
                     = listScore(run.semantic_results, run.combined[i].chunk_id)
              /\ run.combined[i].keyword_score
                     = listScore(run.keyword_results, run.combined[i].chunk_id)
              /\ run.combined[i].hybrid_score
                     = 7 * run.combined[i].semantic_score + 3 * run.combined[i].keyword_score
        /\ scenarioFour =>
              {<<run.combined[i].chunk_id, run.combined[i].hybrid_score>> :
                  i \in 1..Len(run.combined)}
                  = {<<"c1", 63>>, <<"c2", 52>>, <<"c3", 18>>}

\* the lists of scenario 4 were fused
C6_Witness ==
    scenarioFour /\ Len(run.combined) = 3

\* entry a of the fused list ranks above entry b
ranksAbove(a, b) ==
    \/ a.hybrid_score > b.hybrid_score
    \/ /\ a.hybrid_score = b.hybrid_score
       /\ a.ingestion_date.kind = "iso"
       /\ b.ingestion_date.kind = "iso"
       /\ a.ingestion_date.t > b.ingestion_date.t

\* C7, as stated, for the runs whose vector query the store answered: a run
\* returns, without raising, at most k fused results in
\* descending order of combined score, equal scores in descending order of
\* ingestion timestamp; no fused entry left out ranks above a returned one;
\* and a run on the same result lists as the run before returns the same
\* results in the same order.
C7_SearchOrder ==
    [][(run'.called /\ ~run'.vector_failed) =>
          /\ ~run'.raised
          /\ Len(run'.returned) <= request.k
          /\ \A i, j \in 1..Len(run'.returned) :
                i < j => ~ranksAbove(run'.returned[j], run'.returned[i])
          /\ \A i \in 1..Len(run'.combined) :
                (\A j \in 1..Len(run'.returned) : run'.returned[j] # run'.combined[i])
                    => \A j \in 1..Len(run'.returned) :
                           ~ranksAbove(run'.combined[i], run'.returned[j])
          /\ (/\ run.called
              /\ run.semantic_results = run'.semantic_results
              /\ run.keyword_results = run'.keyword_results)
                 => run'.returned = run.returned]_vars

\* the chunks of superseded documents
supersededChunks == {c \in ChunkIds : index.is_latest[documentOf[c]] = "false"}

\* C8, as stated: with only_latest = true neither path returns a chunk of a
\* superseded document; with only_latest = false the chunks of superseded
\* documents that match the query are returned: by the keyword path when the
\* matches fit in its limit, by the semantic path when the index yields them.
C8_LatestOnlyWhenAsked ==
    run.called =>
        /\ request.only_latest =>
              /\ chunkIdsOf(run.semantic_results) \cap supersededChunks = {}
              /\ chunkIdsOf(run.keyword_results) \cap supersededChunks = {}
              /\ chunkIdsOf(run.returned) \cap supersededChunks = {}
        /\ ~request.only_latest =>
              /\ Cardinality({c \in ChunkIds : index.keyword[c] > 0}) <= 2 * request.k
                    => {c \in supersededChunks : index.keyword[c] > 0}
                           \subseteq chunkIdsOf(run.keyword_results)
              /\ Cardinality({c \in ChunkIds : index.semantic[c] > 0}) <= 2 * request.k
                    => {c \in supersededChunks : index.semantic[c] > 0}
                           \subseteq chunkIdsOf(run.semantic_results)

\* C21, as stated: search never fails the call because a retrieval path is
\* unavailable: when the store rejects the keyword query the semantic-only
\* results are returned, and a rejected query of either path is never
\* raised to the caller.
C21_SearchDegrades ==
    run.called =>
        /\ run.vector_failed => ~run.raised
        /\ (run.keyword_failed /\ ~sortRaises(run.combined)) =>
              /\ ~run.raised
              /\ chunkIdsOf(run.combined) = chunkIdsOf(run.semantic_results)
              /\ \A i \in 1..Len(run.returned) :
                    /\ run.returned[i].keyword_score = 0
                    /\ run.returned[i].hybrid_score
                           = semantic_weight * run.returned[i].semantic_score

(***************************************************************************)
(* EmbeddingGenerator                                                      *)
(***************************************************************************)

MaxCalls == 3

\* settings.embedding_dimension
embedding_dimension == 768

\* a lone surrogate, as a command-line argument that is not UTF-8 decodes to
Surrogates == {"U+DCFF"}

textEmpty == <<>>
textBlank == <<" ">>
textA == <<"a">>
textASpace == <<"a", " ">>
textSurrogate == <<"U+DCFF">>

Texts == {textEmpty, textBlank, textA, textASpace, textSurrogate}

\* text.encode() succeeds
encodable(text) == \A i \in 1..Len(text) : text[i] \notin Surrogates

\* hashlib.sha256(text.encode()).hexdigest()[:16]
sha256_16(text) ==
    CASE text = textEmpty -> "e3b0c44298fc1c14"
      [] text = textBlank -> "36a9e7f1c95b82ff"
      [] text = textA -> "ca978112ca1bbdca"
      [] text = textASpace -> "6583dcd6056fd32a"

get_cache_key(text) ==
    IF encodable(text) THEN sha256_16(text) ELSE "UnicodeEncodeError"

NoVector == [provider |-> "none", id |-> 0, dimension |-> 0]

vector(provider, id) == [provider |-> provider, id |-> id, dimension |-> embedding_dimension]

\* [0.0] * self.embedding_dimension
zeroVector == [provider |-> "zero", id |-> 0, dimension |-> embedding_dimension]

\* what gpu_client.generate_embedding does on one call: a vector (the
\* endpoint need not return the same one twice), an empty result,
\* NotImplementedError, or another exception
GpuOutcomes == [kind : {"vector"}, id : {1, 2}]
                   \cup [kind : {"empty", "NotImplementedError", "Exception"}, id : {0}]

\* what _generate_with_sentence_transformers does on one call
LocalOutcomes == [kind : {"vector"}, id : {3}] \cup [kind : {"None", "ImportError"}, id : {0}]

\* if embedding: a list is true when it is not empty
truthy(embedding) == embedding.dimension > 0

attempt(backend, outcome) == [backend |-> backend, kind |-> outcome.kind, id |-> outcome.id]

\* _generate_embedding_impl: the vector and the backends invoked, in order
generate_embedding_impl(gpu_client, gpu, local) ==
    IF gpu_client /\ gpu.kind = "vector"
        THEN [embedding |-> vector("gpu", gpu.id), invoked |-> <<attempt("gpu", gpu)>>]
    ELSE [embedding |-> IF local.kind = "vector" THEN vector("local", local.id)
                        ELSE zeroVector,
          invoked |-> IF gpu_client
                          THEN <<attempt("gpu", gpu), attempt("local", local)>>
                          ELSE <<attempt("local", local)>>]

\* a store that is skipped
cache_put_skipped(c, key, embedding) == c

\* a store that leaves the zero vector out
cache_put_unless_zero(c, key, embedding) ==
    IF embedding = zeroVector THEN c
    ELSE [k \in DOMAIN c \cup {key} |-> IF k = key THEN embedding ELSE c[k]]

\* self._cache[cache_key] = embedding
cache_put(c, key, embedding) ==
    [k \in DOMAIN c \cup {key} |-> IF k = key THEN embedding ELSE c[k]]

callRecord(op, text, outcome, embedding, invoked, stats_after) ==
    [op |-> op, text |-> text, outcome |-> outcome, embedding |-> embedding,
     invoked |-> invoked, stats |-> stats_after]

Returns(text, outcome, embedding, invoked, new_cache, new_stats) ==
    /\ cache' = new_cache
    /\ embedStats' = new_stats
    /\ calls' = Append(calls, callRecord("generate_embedding", text, outcome, embedding,
                                         invoked, new_stats))

\* lines 76-99: generation, the store in the cache and the count
Generates(text, impl, miss_stats) ==
    IF truthy(impl.embedding)
        THEN Returns(text, "vector", impl.embedding, impl.invoked,
                     IF generator.use_cache
                         THEN cache_put(cache, get_cache_key(text), impl.embedding)
                         ELSE cache,
                     [miss_stats EXCEPT !.embeddings_generated = @ + 1])
        ELSE Returns(text, "absent", NoVector, impl.invoked, cache, miss_stats)

\* generate_embedding(text)
GenerateEmbedding(text, gpu, local) ==
    /\ Len(calls) < MaxCalls
    /\ IF text = <<>> \/ strip(text, Whitespace) = <<>>
         THEN Returns(text, "absent", NoVector, <<>>, cache, embedStats)
       ELSE IF generator.use_cache /\ ~encodable(text)
         THEN Returns(text, "raised", NoVector, <<>>, cache, embedStats)
       ELSE IF generator.use_cache /\ get_cache_key(text) \in DOMAIN cache
         THEN Returns(text, "vector", cache[get_cache_key(text)], <<>>, cache,
                      [embedStats EXCEPT !.cache_hits = @ + 1])
       ELSE Generates(text,
                      generate_embedding_impl(generator.gpu_client, gpu, local),
                      IF generator.use_cache
                          THEN [embedStats EXCEPT !.cache_misses = @ + 1]
                          ELSE embedStats)
    /\ UNCHANGED generator
    /\ UNCHANGED decideVars
    /\ UNCHANGED storeVars
    /\ UNCHANGED searchVars
    /\ UNCHANGED <<fileCacheVars, chunkerVars, batchVars>>
    /\ UNCHANGED <<detectVars, retryVars, pipelineVars>>

\* clear_cache()
ClearCache ==
    /\ Len(calls) < MaxCalls
    /\ cache' = <<>>
    /\ calls' = Append(calls, callRecord("clear_cache", <<>>, "count", NoVector, <<>>,
                                         embedStats))
    /\ UNCHANGED <<generator, embedStats>>
    /\ UNCHANGED decideVars
    /\ UNCHANGED storeVars
    /\ UNCHANGED searchVars
    /\ UNCHANGED <<fileCacheVars, chunkerVars, batchVars>>
    /\ UNCHANGED <<detectVars, retryVars, pipelineVars>>

InitEmbed ==
    /\ generator \in [use_cache : BOOLEAN, gpu_client : BOOLEAN]
    /\ cache = <<>>
    /\ embedStats = NoEmbedStats
    /\ calls = <<>>
    /\ DecideIdle
    /\ StoreIdle
    /\ SearchIdle
    /\ FileCacheIdle
    /\ ChunkerIdle
    /\ BatchIdle
    /\ DetectIdle
    /\ RetryIdle
    /\ PipelineIdle

NextEmbed ==
    \/ \E text \in Texts, gpu \in GpuOutcomes, local \in LocalOutcomes :
          GenerateEmbedding(text, gpu, local)
    \/ ClearCache

SpecEmbed == InitEmbed /\ [][NextEmbed]_vars

(***************************************************************************)
(* Claims about the embedding generator (SpecEmbed)                        *)
(***************************************************************************)

\* calls i and i + 1 are generate_embedding calls with the identical text
sameTextTwice(i) ==
    /\ i + 1 <= Len(calls)
    /\ calls[i].op = "generate_embedding"
    /\ calls[i + 1].op = "generate_embedding"
    /\ calls[i + 1].text = calls[i].text

\* the second of two calls returned the first one's vector from the cache
secondIsHit(i) ==
    /\ calls[i + 1].outcome = "vector"
    /\ calls[i + 1].embedding = calls[i].embedding
    /\ calls[i + 1].stats.cache_hits = calls[i].stats.cache_hits + 1
    /\ calls[i + 1].stats.embeddings_generated = calls[i].stats.embeddings_generated
    /\ calls[i + 1].invoked = <<>>

\* C9, as stated: two calls of generate_embedding with the identical
\* non-empty text return the identical vector; the second increments the
\* cache-hit counter by one, leaves the embeddings-generated counter
\* unchanged and invokes no backend.
C9_SecondCallHits ==
    \A i \in 1..Len(calls) :
        (sameTextTwice(i) /\ calls[i].text # <<>>) =>
            calls[i].outcome = "vector" /\ secondIsHit(i)

\* C9: on a generator with caching enabled, once generate_embedding has
\* returned a vector for a text, the next call with the identical text
\* returns the identical vector, increments the cache-hit counter by one,
\* leaves the embeddings-generated counter unchanged and invokes no backend.
C9_SecondCallHitsWhenCached ==
    \A i \in 1..Len(calls) :
        (sameTextTwice(i) /\ generator.use_cache /\ calls[i].outcome = "vector") =>
            secondIsHit(i)

\* a text was embedded by a backend and then asked for again
C9_Witness ==
    \E i \in 1..Len(calls) :
        /\ sameTextTwice(i)
        /\ generator.use_cache
        /\ calls[i].outcome = "vector"
        /\ calls[i].invoked # <<>>
        /\ calls[i + 1].outcome = "vector"

\* the attempts were made in the order endpoint, local model, each after the
\* one before failed to yield a vector, and the vector is that of the last
\* attempt, or the zero vector of the configured dimension when none yielded
chainOf(call) ==
    /\ \A j \in 1..Len(call.invoked) :
          /\ j < Len(call.invoked) => call.invoked[j].kind # "vector"
          /\ call.invoked[j].backend = "gpu" => j = 1
          /\ call.invoked[j].backend = "local" => j = Len(call.invoked)
    /\ call.invoked[1].backend = "gpu" <=> generator.gpu_client
    /\ call.embedding
          = IF call.invoked[Len(call.invoked)].kind = "vector"
                THEN [provider |-> call.invoked[Len(call.invoked)].backend,
                      id |-> call.invoked[Len(call.invoked)].id,
                      dimension |-> 768]
                ELSE [provider |-> "zero", id |-> 0, dimension |-> 768]

\* C10, as stated: for every non-empty text and every failure pattern of the
\* backends, generate_embedding returns a vector, never raises and never
\* returns absent; when it generates, the vector is that of the first of the
\* endpoint, the local model and the zero vector that yields one.
C10_AlwaysAVector ==
    \A i \in 1..Len(calls) :
        (calls[i].op = "generate_embedding" /\ calls[i].text # <<>>) =>
            /\ calls[i].outcome = "vector"
            /\ calls[i].invoked # <<>> => chainOf(calls[i])

\* calls i and j, i before j, are generate_embedding calls with the
\* identical text, and the cache was not cleared between them
sameTextLater(i, j) ==
    /\ i < j
    /\ calls[i].op = "generate_embedding"
    /\ calls[j].op = "generate_embedding"
    /\ calls[j].text = calls[i].text
    /\ \A m \in (i + 1)..(j - 1) : calls[m].op # "clear_cache"

\* C29: with caching enabled, once generate_embedding(text) has returned a
\* vector, the zero vector included, every later generate_embedding(text)
\* returns the same vector without invoking a backend, whatever the
\* backends would answer by then, until clear_cache is called.
C29_CachedUntilCleared ==
    \A i, j \in 1..Len(calls) :
        (sameTextLater(i, j) /\ generator.use_cache /\ calls[i].outcome = "vector") =>
            /\ calls[j].outcome = "vector"
            /\ calls[j].embedding = calls[i].embedding
            /\ calls[j].invoked = <<>>

\* the backends failed and the zero vector was returned for a text; after a
\* call for another text the first text was asked for again and the zero
\* vector came from the cache
C29_Witness ==
    /\ generator.use_cache
    /\ Len(calls) = 3
    /\ sameTextLater(1, 3)
    /\ calls[1].embedding = zeroVector
    /\ calls[1].invoked # <<>>
    /\ calls[2].op = "generate_embedding"
    /\ calls[2].text # calls[1].text
    /\ calls[2].outcome = "vector"
    /\ calls[3].embedding = zeroVector
    /\ calls[3].invoked = <<>>

(***************************************************************************)
(* EmbeddingCache: one pickle file per cache key in the cache directory    *)
(***************************************************************************)

MaxCacheCalls == 3

CacheTexts == {textA, textASpace, textSurrogate}

CacheEmbeddings == {vector("gpu", 1), vector("gpu", 2)}

\* hashlib.sha256(text.encode()).hexdigest()
sha256(text) ==
    CASE text = textA -> "ca978112ca1bbdcafac231b39a23dc4da786eff8147c4e72b9807785afee48bb"
      [] text = textASpace -> "6583dcd6056fd32aadd0d2d0be920de99f6ff08b80065e4b9142aaa4169391cb"

\* EmbeddingCache._get_cache_key
file_cache_key(text) == IF encodable(text) THEN sha256(text) ELSE "UnicodeEncodeError"

\* what open(cache_file, 'wb') followed by pickle.dump does on one call: the
\* file is written; open raises and the directory is as before; or open has
\* created or truncated the file and the write raises
WriteOutcomes == {"written", "open_raises", "dump_raises"}

Pickled(embedding) == [intact |-> TRUE, embedding |-> embedding]

Truncated == [intact |-> FALSE, embedding |-> NoVector]

\* with open(cache_file, 'wb') as f: pickle.dump(embedding, f)
write_file(dir, key, embedding, outcome) ==
    IF outcome = "open_raises" THEN dir
    ELSE [k \in DOMAIN dir \cup {key} |->
             IF k # key THEN dir[k]
             ELSE IF outcome = "written" THEN Pickled(embedding) ELSE Truncated]

\* cache_file.unlink()
unlink(dir, key) == [k \in DOMAIN dir \ {key} |-> dir[k]]

\* cache_file.exists() and pickle.load(f) returns
readable(dir, key) == key \in DOMAIN dir /\ dir[key].intact

cacheCall(op, text, embedding, result, returned, stats_after) ==
    [op |-> op, text |-> text, embedding |-> embedding, result |-> result,
     returned |-> returned, stats |-> stats_after]

CacheReturns(call, new_dir) ==
    /\ cacheCalls' = Append(cacheCalls, call)
    /\ cache_dir' = new_dir
    /\ cacheStats' = call.stats
    /\ UNCHANGED decideVars
    /\ UNCHANGED storeVars
    /\ UNCHANGED searchVars
    /\ UNCHANGED embedVars
    /\ UNCHANGED <<chunkerVars, batchVars>>
    /\ UNCHANGED <<detectVars, retryVars, pipelineVars>>

\* EmbeddingCache.get
CacheGet(text) ==
    /\ Len(cacheCalls) < MaxCacheCalls
    /\ IF ~encodable(text)
         THEN CacheReturns(cacheCall("get", text, NoVector, "raised", NoVector, cacheStats),
                           cache_dir)
       ELSE IF readable(cache_dir, file_cache_key(text))
         THEN CacheReturns(cacheCall("get", text, NoVector, "embedding",
                                     cache_dir[file_cache_key(text)].embedding,
                                     [cacheStats EXCEPT !.hits = @ + 1]),
                           cache_dir)
       ELSE CacheReturns(cacheCall("get", text, NoVector, "None", NoVector,
                                   [cacheStats EXCEPT !.misses = @ + 1]),
                         cache_dir)

\* EmbeddingCache.set
CacheSet(text, embedding, outcome) ==
    /\ Len(cacheCalls) < MaxCacheCalls
    /\ IF ~encodable(text)
         THEN CacheReturns(cacheCall("set", text, embedding, "raised", NoVector, cacheStats),
                           cache_dir)
       ELSE IF outcome = "written"
         THEN CacheReturns(cacheCall("set", text, embedding, "True", NoVector,
                                     [cacheStats EXCEPT !.writes = @ + 1]),
                           write_file(cache_dir, file_cache_key(text), embedding, outcome))
       ELSE CacheReturns(cacheCall("set", text, embedding, "False", NoVector, cacheStats),
                         write_file(cache_dir, file_cache_key(text), embedding, outcome))

\* EmbeddingCache.delete
CacheDelete(text) ==
    /\ Len(cacheCalls) < MaxCacheCalls
    /\ IF ~encodable(text)
         THEN CacheReturns(cacheCall("delete", text, NoVector, "raised", NoVector, cacheStats),
                           cache_dir)
       ELSE IF file_cache_key(text) \in DOMAIN cache_dir
         THEN CacheReturns(cacheCall("delete", text, NoVector, "True", NoVector, cacheStats),
                           unlink(cache_dir, file_cache_key(text)))
       ELSE CacheReturns(cacheCall("delete", text, NoVector, "False", NoVector, cacheStats),
                         cache_dir)

\* EmbeddingCache.clear
CacheClear ==
    /\ Len(cacheCalls) < MaxCacheCalls
    /\ CacheReturns(cacheCall("clear", <<>>, NoVector, "count", NoVector, cacheStats), <<>>)

InitCache ==
    /\ FileCacheIdle
    /\ DecideIdle
    /\ StoreIdle
    /\ SearchIdle
    /\ EmbedIdle
    /\ ChunkerIdle
    /\ BatchIdle
    /\ DetectIdle
    /\ RetryIdle
    /\ PipelineIdle

NextCache ==
    \/ \E text \in CacheTexts : CacheGet(text)
    \/ \E text \in CacheTexts, embedding \in CacheEmbeddings, outcome \in WriteOutcomes :
          CacheSet(text, embedding, outcome)
    \/ \E text \in CacheTexts : CacheDelete(text)
    \/ CacheClear

SpecCache == InitCache /\ [][NextCache]_vars

\* the statistics before call i
statsBefore(i) == IF i = 1 THEN NoCacheStats ELSE cacheCalls[i - 1].stats

\* call j is a set of the text of call i that succeeded
storesFor(j, i) ==
    /\ cacheCalls[j].op = "set"
    /\ cacheCalls[j].text = cacheCalls[i].text
    /\ cacheCalls[j].result = "True"

\* call j is a delete of the text of call i, or a clear
removesFor(j, i) ==
    \/ cacheCalls[j].op = "clear"
    \/ cacheCalls[j].op = "delete" /\ cacheCalls[j].text = cacheCalls[i].text

\* call j is the last set of the text of call i that succeeded, and neither
\* delete(text) nor clear() was called since
standsFor(j, i) ==
    /\ j < i
    /\ storesFor(j, i)
    /\ \A m \in (j + 1)..(i - 1) : ~storesFor(m, i) /\ ~removesFor(m, i)

\* C11, as stated: get(text) on a text never stored returns absent and adds
\* one to misses; after set(text, v) succeeded, every get(text) returns v and
\* adds one to hits, until delete(text) or clear() is called.
C11_GetAfterSet ==
    \A i \in 1..Len(cacheCalls) :
        cacheCalls[i].op = "get" =>
            /\ (\A j \in 1..(i - 1) : ~storesFor(j, i)) =>
                  /\ cacheCalls[i].result = "None"
                  /\ cacheCalls[i].stats = [statsBefore(i) EXCEPT !.misses = @ + 1]
            /\ \A j \in 1..(i - 1) :
                  standsFor(j, i) =>
                      /\ cacheCalls[i].result = "embedding"
                      /\ cacheCalls[i].returned = cacheCalls[j].embedding
                      /\ cacheCalls[i].stats = [statsBefore(i) EXCEPT !.hits = @ + 1]

(***************************************************************************)
(* TextChunker                                                             *)
(***************************************************************************)

MaxWords == 6

MaxSize == 4

\* settings.chunk_size_words, settings.chunk_overlap_words
chunk_size_words == 3500
chunk_overlap_words == 400

\* a constructor argument: None, or the int given
NoneArg == [given |-> FALSE, value |-> 0]
IntArg(n) == [given |-> TRUE, value |-> n]

SizeArgs == {NoneArg} \cup {IntArg(n) : n \in (0..MaxSize) \cup {50}}
OverlapArgs == {NoneArg} \cup {IntArg(n) : n \in (0..MaxSize) \cup {10}}

\* arg or default: None and 0 are false
orDefault(arg, default) == IF arg.given /\ arg.value # 0 THEN arg.value ELSE default

\* orDefault when only None selects the default
orDefault_none_only(arg, default) == IF arg.given THEN arg.value ELSE default

\* TextChunker.__init__
construct(size_arg, overlap_arg) ==
    IF orDefault(overlap_arg, chunk_overlap_words) >= orDefault(size_arg, chunk_size_words)
        THEN [constructed |-> "ValueError", size_arg |-> size_arg, overlap_arg |-> overlap_arg,
              chunk_size |-> 0, chunk_overlap |-> 0]
    ELSE [constructed |-> "yes", size_arg |-> size_arg, overlap_arg |-> overlap_arg,
          chunk_size |-> orDefault(size_arg, chunk_size_words),
          chunk_overlap |-> orDefault(overlap_arg, chunk_overlap_words)]

\* words[a:b], 0-based and half-open, clipped to the list
slice(ws, a, b) == SubSeq(ws, a + 1, IF b < Len(ws) THEN b ELSE Len(ws))

\* sum(len(w) + 1 for w in words), the sum of the first half plus the second's
RECURSIVE sumLengths(_)
sumLengths(ws) ==
    IF ws = <<>> THEN 0
    ELSE IF Len(ws) = 1 THEN Len(ws[1]) + 1
    ELSE sumLengths(SubSeq(ws, 1, Len(ws) \div 2))
             + sumLengths(SubSeq(ws, Len(ws) \div 2 + 1, Len(ws)))

\* TextChunker._find_char_position
find_char_position(text, target_word, word_index) ==
    sumLengths(slice(split(text), 0, word_index))

\* Chunk(content, position, start_char, end_char, word_count, char_count)
Chunk(content, position, start_char, end_char, word_count) ==
    [content |-> content, position |-> position, start_char |-> start_char,
     end_char |-> end_char, word_count |-> word_count, char_count |-> Len(content)]

\* a chunk whose end_char is its start_char
wordsChunk_empty_span(chunk_words, position, start_char) ==
    Chunk(join(chunk_words), position, start_char, start_char, Len(chunk_words))

\* the chunk of chunk_words at start_char: end_char = start_char + len(chunk_text)
wordsChunk(chunk_words, position, start_char) ==
    Chunk(join(chunk_words), position, start_char, start_char + Len(join(chunk_words)),
          Len(chunk_words))

\* a step of the whole window
step_no_overlap(self) == self.chunk_size

\* current_word_index += (self.chunk_size - self.chunk_overlap)
step(self) == self.chunk_size - self.chunk_overlap

\* the number of iterations of the while loop: current_word_index takes the
\* values 0, step, 2 * step, ... below len(words)
iterations(self, words) == (Len(words) + step(self) - 1) \div step(self)

\* the chunk appended by the iteration that starts at current_word_index
windowChunk(self, text, words, current_word_index, position) ==
    wordsChunk(slice(words, current_word_index, current_word_index + self.chunk_size),
               position,
               find_char_position(text, words[current_word_index + 1], current_word_index))

\* the while loop of chunk_text: iteration k has position k - 1 and
\* current_word_index (k - 1) * step
window(self, text, words) ==
    [k \in 1..iterations(self, words) |->
        windowChunk(self, text, words, (k - 1) * step(self), k - 1)]

\* TextChunker.chunk_text
chunk_text(self, text) ==
    IF strip(text, Whitespace) = <<>> THEN <<>>
    ELSE IF Len(split(text)) <= self.chunk_size
        THEN <<Chunk(text, 0, 0, Len(text), Len(split(text)))>>
    ELSE window(self, text, split(text))

\* the index of the first "\n\n" of s, 0 when there is none
firstBreak(s) ==
    IF \E i \in 1..(Len(s) - 1) : s[i] = "\n" /\ s[i + 1] = "\n"
        THEN CHOOSE i \in 1..(Len(s) - 1) :
                 /\ s[i] = "\n" /\ s[i + 1] = "\n"
                 /\ \A j \in 1..(i - 1) : ~(s[j] = "\n" /\ s[j + 1] = "\n")
    ELSE 0

\* text.split('\n\n')
RECURSIVE splitParagraphs(_)
splitParagraphs(s) ==
    IF firstBreak(s) = 0 THEN <<s>>
    ELSE <<SubSeq(s, 1, firstBreak(s) - 1)>>
             \o splitParagraphs(SubSeq(s, firstBreak(s) + 2, Len(s)))

\* current_chunk_words[overlap_start:], overlap_start = max(0, len - chunk_overlap)
keepOverlap(self, current_chunk_words) ==
    slice(current_chunk_words,
          IF Len(current_chunk_words) - self.chunk_overlap > 0
              THEN Len(current_chunk_words) - self.chunk_overlap ELSE 0,
          Len(current_chunk_words))

\* the for loop of chunk_text_smart and the final chunk
RECURSIVE paragraphLoop(_, _, _, _, _, _)
paragraphLoop(self, text, paragraphs, chunks, current_chunk_words, position) ==
    IF paragraphs = <<>>
        THEN IF current_chunk_words # <<>>
                 THEN Append(chunks, wordsChunk(current_chunk_words, position,
                                 find_char_position(text, current_chunk_words[1], 0)))
             ELSE chunks
    ELSE IF /\ Len(current_chunk_words) + Len(split(Head(paragraphs))) > self.chunk_size
            /\ current_chunk_words # <<>>
        THEN paragraphLoop(self, text, Tail(paragraphs),
                 Append(chunks, wordsChunk(current_chunk_words, position,
                            find_char_position(text, current_chunk_words[1], 0))),
                 keepOverlap(self, current_chunk_words) \o split(Head(paragraphs)),
                 position + 1)
    ELSE paragraphLoop(self, text, Tail(paragraphs), chunks,
                       current_chunk_words \o split(Head(paragraphs)), position)

\* chunk_text whatever prefer_paragraph_breaks is
chunk_text_always(self, text, prefer_paragraph_breaks) == chunk_text(self, text)

\* TextChunker.chunk_text_smart
chunk_text_smart(self, text, prefer_paragraph_breaks) ==
    IF ~prefer_paragraph_breaks THEN chunk_text(self, text)
    ELSE IF paragraphLoop(self, text, splitParagraphs(text), <<>>, <<>>, 0) # <<>>
        THEN paragraphLoop(self, text, splitParagraphs(text), <<>>, <<>>, 0)
    ELSE chunk_text(self, text)

\* the words of the texts chunked: the first MaxWords of these
WordList == <<<<"a">>, <<"b", "b">>, <<"c">>, <<"d">>, <<"e">>, <<"f">>, <<"g">>>>

\* between two words: a space, or the blank line that ends a paragraph
Separators == {<<" ">>, <<"\n", "\n">>}

Leads == {<<>>, <<" ">>}

\* the first n words, word i + 1 after separator seps[i]
RECURSIVE wordsText(_, _)
wordsText(n, seps) ==
    IF n = 0 THEN <<>>
    ELSE IF n = 1 THEN WordList[1]
    ELSE wordsText(n - 1, seps) \o seps[n - 1] \o WordList[n]

\* 120 words separated by single spaces
text120 == [i \in 1..239 |-> IF i % 2 = 1 THEN "w" ELSE " "]

ChunkTexts ==
    {lead \o wordsText(n, seps) :
        lead \in Leads, n \in 0..MaxWords, seps \in [1..(MaxWords - 1) -> Separators]}
    \cup {text120}

chunkCall(called, text, prefer_paragraph_breaks, chunks) ==
    [called |-> called, text |-> text, prefer_paragraph_breaks |-> prefer_paragraph_breaks,
     chunks |-> chunks]

\* TextChunker(chunk_size_words, chunk_overlap_words)
Construct(size_arg, overlap_arg) ==
    /\ chunker.constructed = "no"
    /\ chunker' = construct(size_arg, overlap_arg)
    /\ UNCHANGED chunked
    /\ UNCHANGED decideVars
    /\ UNCHANGED storeVars
    /\ UNCHANGED searchVars
    /\ UNCHANGED embedVars
    /\ UNCHANGED <<fileCacheVars, batchVars>>
    /\ UNCHANGED <<detectVars, retryVars, pipelineVars>>

\* chunker.chunk_text(text); the chunker keeps no state between calls, so one
\* call per chunker is followed
ChunkText(text) ==
    /\ chunker.constructed = "yes"
    /\ chunked.called = "none"
    /\ chunked' = chunkCall("chunk_text", text, FALSE, chunk_text(chunker, text))
    /\ UNCHANGED chunker
    /\ UNCHANGED decideVars
    /\ UNCHANGED storeVars
    /\ UNCHANGED searchVars
    /\ UNCHANGED embedVars
    /\ UNCHANGED <<fileCacheVars, batchVars>>
    /\ UNCHANGED <<detectVars, retryVars, pipelineVars>>

\* chunker.chunk_text_smart(text, prefer_paragraph_breaks)
ChunkTextSmart(text, prefer_paragraph_breaks) ==
    /\ chunker.constructed = "yes"
    /\ chunked.called = "none"
    /\ chunked' = chunkCall("chunk_text_smart", text, prefer_paragraph_breaks,
                            chunk_text_smart(chunker, text, prefer_paragraph_breaks))
    /\ UNCHANGED chunker
    /\ UNCHANGED decideVars
    /\ UNCHANGED storeVars
    /\ UNCHANGED searchVars
    /\ UNCHANGED embedVars
    /\ UNCHANGED <<fileCacheVars, batchVars>>
    /\ UNCHANGED <<detectVars, retryVars, pipelineVars>>

InitChunk ==
    /\ ChunkerIdle
    /\ DecideIdle
    /\ StoreIdle
    /\ SearchIdle
    /\ EmbedIdle
    /\ FileCacheIdle
    /\ BatchIdle
    /\ DetectIdle
    /\ RetryIdle
    /\ PipelineIdle

NextChunk ==
    \/ \E size_arg \in SizeArgs, overlap_arg \in OverlapArgs : Construct(size_arg, overlap_arg)
    \/ \E text \in ChunkTexts : ChunkText(text)
    \/ \E text \in ChunkTexts, prefer_paragraph_breaks \in BOOLEAN :
          ChunkTextSmart(text, prefer_paragraph_breaks)

SpecChunk == InitChunk /\ [][NextChunk]_vars

\* the words of chunk i of the last call
chunkWords(i) == split(chunked.chunks[i].content)

\* the last n words of chunk i are the first n words of chunk i + 1
sharesWords(i, n) ==
    /\ Len(chunkWords(i)) >= n
    /\ Len(chunkWords(i + 1)) >= n
    /\ SubSeq(chunkWords(i), Len(chunkWords(i)) - n + 1, Len(chunkWords(i)))
           = SubSeq(chunkWords(i + 1), 1, n)

\* chunk_text was called on a text of more than chunk_size words
longTextChunked ==
    /\ chunked.called = "chunk_text"
    /\ Len(split(chunked.text)) > chunker.chunk_size

\* C12, as stated: for a text of more than size_words words, the last
\* overlap_words words of each chunk are the first overlap_words words of the
\* next chunk; only the pair that ends in the last chunk may share fewer, as
\* many as the last chunk has.
C12_ConsecutiveOverlap ==
    longTextChunked =>
        \A i \in 1..(Len(chunked.chunks) - 1) :
            IF i + 1 < Len(chunked.chunks)
                THEN sharesWords(i, chunker.chunk_overlap)
            ELSE \/ sharesWords(i, chunker.chunk_overlap)
                 \/ /\ Len(chunkWords(i + 1)) < chunker.chunk_overlap
                    /\ sharesWords(i, Len(chunkWords(i + 1)))

\* chunk_text was called on the 120-word text with size 50 and overlap 10
scenarioOne ==
    /\ chunked.called = "chunk_text"
    /\ chunked.text = text120
    /\ chunker.chunk_size = 50
    /\ chunker.chunk_overlap = 10

positionsOf(chunks) == [i \in 1..Len(chunks) |-> chunks[i].position]

wordCountsOf(chunks) == [i \in 1..Len(chunks) |-> chunks[i].word_count]

\* C13, as stated: the 120-word text with size 50 and overlap 10 yields three
\* chunks at positions 0, 1, 2 with word counts 50, 50, 20.
C13_WordCounts_50_50_20 ==
    scenarioOne =>
        /\ positionsOf(chunked.chunks) = <<0, 1, 2>>
        /\ wordCountsOf(chunked.chunks) = <<50, 50, 20>>

\* C13, amended: the 120-word text with size 50 and overlap 10 yields three
\* chunks at positions 0, 1, 2 with word counts 50, 50, 40 (the windows start
\* at words 0, 40 and 80).
C13_WordCounts_50_50_40 ==
    scenarioOne =>
        /\ positionsOf(chunked.chunks) = <<0, 1, 2>>
        /\ wordCountsOf(chunked.chunks) = <<50, 50, 40>>

C13_Witness == scenarioOne /\ Len(chunked.chunks) = 3

\* C14: in every non-empty result of chunk_text and of chunk_text_smart the
\* positions are 0, 1, ..., n-1 in list order and every chunk has
\* end_char > start_char.
C14_PositionsAndSpans ==
    chunked.called \in {"chunk_text", "chunk_text_smart"} =>
        \A i \in 1..Len(chunked.chunks) :
            /\ chunked.chunks[i].position = i - 1
            /\ chunked.chunks[i].end_char > chunked.chunks[i].start_char

C14_Witness ==
    /\ chunked.called = "chunk_text_smart"
    /\ chunked.prefer_paragraph_breaks
    /\ Len(chunked.chunks) >= 3

\* the words p, in order and contiguous, are among the words ws
containsWords(ws, p) ==
    \E k \in 0..(Len(ws) - Len(p)) : SubSeq(ws, k + 1, k + Len(p)) = p

\* every short paragraph is whole in one of the returned chunks
paragraphsWhole ==
    \A i \in 1..Len(splitParagraphs(chunked.text)) :
        (/\ split(splitParagraphs(chunked.text)[i]) # <<>>
         /\ Len(split(splitParagraphs(chunked.text)[i])) < chunker.chunk_size)
            => \E c \in 1..Len(chunked.chunks) :
                   containsWords(chunkWords(c), split(splitParagraphs(chunked.text)[i]))

\* C15, as stated: chunk_text_smart never splits a paragraph of fewer than
\* size_words words across two chunks: one returned chunk has all its words,
\* contiguous and in order.
C15_ParagraphsNeverSplit == chunked.called = "chunk_text_smart" => paragraphsWhole

\* C15, amended: chunk_text_smart called with prefer_paragraph_breaks true
\* (its default) never splits a paragraph of fewer than size_words words.
C15_ParagraphsNeverSplitWhenPreferred ==
    (chunked.called = "chunk_text_smart" /\ chunked.prefer_paragraph_breaks)
        => paragraphsWhole

C15_Witness ==
    /\ chunked.called = "chunk_text_smart"
    /\ chunked.prefer_paragraph_breaks
    /\ Len(chunked.chunks) >= 2
    /\ Len(splitParagraphs(chunked.text)) >= 3
    /\ Len(split(chunked.text)) > chunker.chunk_size

\* C16, as stated: with both values given, construction fails exactly when
\* overlap_words >= size_words, and for 0 <= overlap_words < size_words it
\* succeeds and the chunker uses the given values.
C16_ConstructionValidates ==
    (chunker.constructed # "no" /\ chunker.size_arg.given /\ chunker.overlap_arg.given) =>
        /\ chunker.constructed = "ValueError"
              <=> chunker.overlap_arg.value >= chunker.size_arg.value
        /\ (chunker.overlap_arg.value >= 0
            /\ chunker.overlap_arg.value < chunker.size_arg.value) =>
              /\ chunker.constructed = "yes"
              /\ chunker.chunk_size = chunker.size_arg.value
              /\ chunker.chunk_overlap = chunker.overlap_arg.value

(***************************************************************************)
(* The retroactive scan and the detection's failure handling               *)
(***************************************************************************)

\* in the last scan, the decision rule is positive for row j superseding row i
retroPositive(i, j) ==
    /\ retroDecision(prevDocs, last.order[j], last.order[i]).supersede
    /\ retroDecision(prevDocs, last.order[j], last.order[i]).reason.kind # "no_supersession"

\* the supersessions of the last scan whose older document is d
supersessionsOf(d) == {h \in last.superseded : h.document_id = d}

\* C17: in one pass over the rows of the query (the latest documents by
\* ingestion time ascending), each document is superseded at most once, its
\* successor is the earliest later row for which the decision rule is
\* positive, every document that has such a row is superseded, and a pass
\* that writes marks exactly these documents, each with its successor.
C17_FirstLaterSuccessor ==
    last.op = "retro" =>
        /\ \A h \in last.superseded :
              \E i, j \in 1..Len(last.order) :
                  /\ i < j
                  /\ last.order[i] = h.document_id
                  /\ last.order[j] = h.newer
                  /\ retroPositive(i, j)
                  /\ \A k \in (i + 1)..(j - 1) : ~retroPositive(i, k)
        /\ \A d \in DocIds : Cardinality(supersessionsOf(d)) <= 1
        /\ \A i \in 1..Len(last.order) :
              (\E j \in (i + 1)..Len(last.order) : retroPositive(i, j))
                  => supersessionsOf(last.order[i]) # {}
        /\ ~last.dry_run =>
              \A d \in DocIds :
                  IF supersessionsOf(d) = {} THEN docs[d] = prevDocs[d]
                  ELSE \E h \in supersessionsOf(d) :
                           /\ docs[d].is_latest = "false"
                           /\ docs[d].superseded_by = h.newer

\* a writing pass in which a document had two later rows that supersede it
C17_Witness ==
    /\ last.op = "retro"
    /\ ~last.dry_run
    /\ \E i, j, k \in 1..Len(last.order) :
          i < j /\ j < k /\ retroPositive(i, j) /\ retroPositive(i, k)

\* C18: a pass with dry_run = true changes no document property and no
\* SUPERSEDES edge, and reports the supersessions that the writing pass
\* reports from the same store state and the same rows of the query.
C18_DryRunWritesNothing ==
    [][(last'.op = "retro" /\ last'.dry_run) =>
          /\ docs' = docs
          /\ edges' = edges
          /\ last'.superseded =
                 {[document_id |-> f.older, reason |-> f.reason, newer |-> f.newer] :
                     f \in retroFound(docs, last'.order)}]_vars

C18_Witness == last.op = "retro" /\ last.dry_run /\ last.superseded # {}

MaxFiles == 2

\* pdf_files + md_files: the first n of these
BatchFileList == <<"a.pdf", "b.md", "c.markdown">>

\* the step of ingest_document that fails for a file, if any: the lookup of
\* the existing document, getmtime in should_update_document, the delete of
\* the existing document, the parser, the persistence of a chunk
Faults == {"none", "lookup", "mtime", "delete", "parse", "persist"}

\* what one file meets: whether it is still on disk when ingest_document
\* looks, whether the store holds a document for its path, whether the file
\* is newer than that document, and the step that fails
Situations == [on_disk : BOOLEAN, existing : BOOLEAN, modified : BOOLEAN, fault : Faults]

NoBatchStats == [documents_processed |-> 0, documents_failed |-> 0, documents_skipped |-> 0,
                 documents_updated |-> 0, errors |-> 0]

returned(stats_after) == [raised |-> FALSE, stats |-> stats_after]

raised(stats_after) == [raised |-> TRUE, stats |-> stats_after]

\* lines 110-213 of ingest_document: the type is the suffix's, and everything
\* from the parser on is inside try/except Exception
ingest_parsed(s, st) ==
    IF s.fault \in {"parse", "persist"}
        THEN returned([st EXCEPT !.errors = @ + 1, !.documents_failed = @ + 1])
    ELSE returned([st EXCEPT !.documents_processed = @ + 1])

\* BatchIngester.ingest_document on a file in situation s
ingest_document(s, st) ==
    IF ~s.on_disk THEN returned([st EXCEPT !.documents_failed = @ + 1])
    ELSE IF s.fault = "lookup" THEN raised(st)
    ELSE IF ~s.existing THEN ingest_parsed(s, st)
    ELSE IF s.fault = "mtime" THEN raised(st)
    ELSE IF ~s.modified THEN returned([st EXCEPT !.documents_skipped = @ + 1])
    ELSE IF s.fault = "delete" THEN raised(st)
    ELSE ingest_parsed(s, [st EXCEPT !.documents_updated = @ + 1])

\* for file_path in all_files: self.ingest_document(str(file_path)), from file i on
RECURSIVE ingestFrom(_, _, _, _)
ingestFrom(all_files, situations, i, b) ==
    IF i > Len(all_files) THEN [b EXCEPT !.returned = TRUE]
    ELSE IF ingest_document(situations[i], b.stats).raised
        THEN [b EXCEPT !.attempted = Append(@, all_files[i]), !.raised = TRUE]
    ELSE ingestFrom(all_files, situations, i + 1,
                    [b EXCEPT !.attempted = Append(@, all_files[i]),
                              !.stats = ingest_document(situations[i], b.stats).stats])

\* BatchIngester.ingest_directory
ingest_directory(dir_exists, all_files, situations) ==
    IF ~dir_exists
        THEN [called |-> TRUE, dir_exists |-> FALSE, all_files |-> all_files,
              situations |-> situations, attempted |-> <<>>, stats |-> NoBatchStats,
              raised |-> FALSE, returned |-> TRUE]
    ELSE ingestFrom(all_files, situations, 1,
                    [called |-> TRUE, dir_exists |-> TRUE, all_files |-> all_files,
                     situations |-> situations, attempted |-> <<>>, stats |-> NoBatchStats,
                     raised |-> FALSE, returned |-> FALSE])

\* ingester.ingest_directory(directory_path) on a new BatchIngester
IngestDirectory(dir_exists, n, situations) ==
    /\ ~batch.called
    /\ batch' = ingest_directory(dir_exists, SubSeq(BatchFileList, 1, n), situations)
    /\ UNCHANGED decideVars
    /\ UNCHANGED storeVars
    /\ UNCHANGED searchVars
    /\ UNCHANGED embedVars
    /\ UNCHANGED <<fileCacheVars, chunkerVars>>
    /\ UNCHANGED <<detectVars, retryVars, pipelineVars>>

InitBatch ==
    /\ BatchIdle
    /\ DetectIdle
    /\ RetryIdle
    /\ PipelineIdle
    /\ DecideIdle
    /\ StoreIdle
    /\ SearchIdle
    /\ EmbedIdle
    /\ FileCacheIdle
    /\ ChunkerIdle

NextBatch ==
    \E dir_exists \in BOOLEAN, n \in 0..MaxFiles :
        \E situations \in [1..n -> Situations] : IngestDirectory(dir_exists, n, situations)

SpecBatch == InitBatch /\ [][NextBatch]_vars

\* a step of ingest_document fails for a file in situation s
stepFails(s) ==
    \/ ~s.on_disk
    \/ s.fault = "lookup"
    \/ s.existing /\ s.fault = "mtime"
    \/ s.existing /\ s.modified /\ s.fault = "delete"
    \/ (~s.existing \/ s.modified) /\ s.fault \in {"parse", "persist"}

\* C20, as stated: ingest_directory attempts every matching file exactly
\* once, records the failure of any step for one file in the statistics,
\* still ingests the remaining files, and returns the statistics instead
\* of raising.
C20_BatchCompletes ==
    (batch.called /\ batch.dir_exists) =>
        /\ ~batch.raised
        /\ batch.returned
        /\ batch.attempted = batch.all_files
        /\ batch.stats.documents_failed
               = Cardinality({i \in 1..Len(batch.all_files) : stepFails(batch.situations[i])})

(***************************************************************************)
(* Claims about the version attributes of a created document (Spec)        *)
(***************************************************************************)

\* before the last operation d was a stored document that nothing had
\* superseded, with the title and another path than the document just ingested
earlierSameTitle(d) ==
    /\ d # last.document_id
    /\ prevDocs[d].present
    /\ prevDocs[d].is_latest # "false"
    /\ prevDocs[d].title = docs[last.document_id].title

\* C24, as stated: a document created by ingest_document is stored as a
\* latest document (is_latest = true, superseded_by unset), so that the
\* ingestion of a second document of the same title from another path finds
\* the first with the candidate query and marks it superseded.
C24_CreatedAsLatest ==
    (last.op = "ingest" /\ ~last.query_failed) =>
        /\ docs[last.document_id].is_latest = "true"
        /\ docs[last.document_id].superseded_by = "null"
        /\ \A d \in DocIds :
              earlierSameTitle(d) =>
                  /\ docs[d].is_latest = "false"
                  /\ docs[d].superseded_by = last.document_id

(***************************************************************************)
(* retry_with_exponential_backoff                                          *)
(***************************************************************************)

MaxAttempts == 4

\* the decorator's defaults, in seconds
initial_delay == 1
max_delay == 32
exponential_base == 2

\* the default exceptions tuple
RetryExceptions == {"ServiceUnavailable", "SessionExpired", "ConnectionError", "Timeout"}

\* what one invocation of the wrapped function does
CallOutcomes ==
    [kind : {"returns"}, what : {"value"}]
        \cup [kind : {"raises"}, what : RetryExceptions \cup {"ValueError"}]

\* except exceptions as e
caught(outcome) == outcome.kind = "raises" /\ outcome.what \in RetryExceptions

\* a test that lets the loop go one attempt further
lastAttempt_one_late(this_attempt, max_attempts) == this_attempt = max_attempts + 1

\* if attempt == max_attempts
lastAttempt(this_attempt, max_attempts) == this_attempt = max_attempts

\* for attempt in range(1, max_attempts + 1): the loop variable after attempt,
\* and whether the range is exhausted
loopEnds(next_attempt, max_attempts) == next_attempt > max_attempts

\* wrapper(*args, **kwargs) up to the first iteration of its loop; an empty
\* range falls through to raise RuntimeError("Unreachable code")
entered(max_attempts) ==
    [called |-> TRUE, max_attempts |-> max_attempts, delay |-> initial_delay,
     attempt |-> 1, invocations |-> <<>>, slept |-> <<>>,
     status |-> IF loopEnds(1, max_attempts) THEN "raised" ELSE "running",
     result |-> IF loopEnds(1, max_attempts) THEN "RuntimeError" ELSE "none"]

\* one iteration of the loop: func(*args, **kwargs) with the given outcome
iteration(r, outcome) ==
    IF outcome.kind = "returns"
        THEN [r EXCEPT !.invocations = Append(@, outcome),
                       !.status = "returned", !.result = outcome.what]
    ELSE IF ~caught(outcome) \/ lastAttempt(r.attempt, r.max_attempts)
        THEN [r EXCEPT !.invocations = Append(@, outcome),
                       !.status = "raised", !.result = outcome.what]
    ELSE [r EXCEPT !.invocations = Append(@, outcome),
                   !.slept = Append(@, least(r.delay, max_delay)),
                   !.delay = @ * exponential_base,
                   !.attempt = @ + 1,
                   !.status = IF loopEnds(r.attempt + 1, r.max_attempts)
                                  THEN "raised" ELSE "running",
                   !.result = IF loopEnds(r.attempt + 1, r.max_attempts)
                                  THEN "RuntimeError" ELSE "none"]

\* a decorated function is called
RetryCall(max_attempts) ==
    /\ ~retry.called
    /\ retry' = entered(max_attempts)
    /\ UNCHANGED decideVars
    /\ UNCHANGED storeVars
    /\ UNCHANGED searchVars
    /\ UNCHANGED embedVars
    /\ UNCHANGED <<fileCacheVars, chunkerVars, batchVars, detectVars, pipelineVars>>

\* the wrapper invokes the function once more
RetryAttempt(outcome) ==
    /\ retry.called
    /\ retry.status = "running"
    /\ retry' = iteration(retry, outcome)
    /\ UNCHANGED decideVars
    /\ UNCHANGED storeVars
    /\ UNCHANGED searchVars
    /\ UNCHANGED embedVars
    /\ UNCHANGED <<fileCacheVars, chunkerVars, batchVars, detectVars, pipelineVars>>

InitRetry ==
    /\ RetryIdle
    /\ DecideIdle
    /\ StoreIdle
    /\ SearchIdle
    /\ EmbedIdle
    /\ FileCacheIdle
    /\ ChunkerIdle
    /\ BatchIdle
    /\ DetectIdle
    /\ PipelineIdle

NextRetry ==
    \/ \E max_attempts \in 0..MaxAttempts : RetryCall(max_attempts)
    \/ \E outcome \in CallOutcomes : RetryAttempt(outcome)

\* the wrapper is sequential code: while it has a step to take, it takes it,
\* and the wrapped function is taken to come back from every invocation
SpecRetry == InitRetry /\ [][NextRetry]_vars /\ WF_vars(NextRetry)

\* every invocation but the last raised an exception of the tuple
earlierCaught ==
    \A i \in 1..(Len(retry.invocations) - 1) : caught(retry.invocations[i])

retryStops ==
    retry.called =>
        /\ Len(retry.invocations) <= retry.max_attempts
        /\ earlierCaught
        /\ retry.status = "running" =>
              /\ Len(retry.invocations) < retry.max_attempts
              /\ \A i \in 1..Len(retry.invocations) : caught(retry.invocations[i])
        /\ retry.status = "returned" =>
              /\ retry.invocations[Len(retry.invocations)].kind = "returns"
              /\ retry.result = retry.invocations[Len(retry.invocations)].what
        /\ (retry.status = "raised" /\ retry.invocations # <<>>) =>
              /\ retry.invocations[Len(retry.invocations)].kind = "raises"
              /\ retry.result = retry.invocations[Len(retry.invocations)].what
              /\ caught(retry.invocations[Len(retry.invocations)])
                    => Len(retry.invocations) = retry.max_attempts
        /\ \A i \in 1..Len(retry.invocations) :
              (retry.invocations[i].kind = "returns" \/ ~caught(retry.invocations[i]))
                  => i = Len(retry.invocations) /\ retry.status # "running"

wordSet(i) == {chunkWords(i)[k] : k \in 1..Len(chunkWords(i))}

\* no word occurs twice in the text: a word names its occurrence
distinctWords(text) ==
    \A i, j \in 1..Len(split(text)) : i # j => split(text)[i] # split(text)[j]

\* C27, as stated: for a text of more than size_words words, every chunk
\* chunk_text returns after the first contains a word occurrence of the
\* input that no earlier chunk contains, and every word of the input is in
\* at least one chunk.
C27_WindowAdvances ==
    (longTextChunked /\ distinctWords(chunked.text)) =>
        /\ \A i \in 2..Len(chunked.chunks) :
              \E w \in wordSet(i) : \A j \in 1..(i - 1) : w \notin wordSet(j)
        /\ \A k \in 1..Len(split(chunked.text)) :
              \E i \in 1..Len(chunked.chunks) : split(chunked.text)[k] \in wordSet(i)

\* word w starts at character offset off of text
startsAt(text, off, w) ==
    /\ off + Len(w) <= Len(text)
    /\ SubSeq(text, off + 1, off + Len(w)) = w
    /\ off = 0 \/ text[off] \in Whitespace

\* C28, as stated: for every chunk returned by chunk_text and by
\* chunk_text_smart, start_char is the character offset in the original text
\* at which the chunk's first word starts; so with several chunks start_char
\* increases strictly with position.
C28_StartOffsets ==
    chunked.called \in {"chunk_text", "chunk_text_smart"} =>
        /\ \A i \in 1..Len(chunked.chunks) :
              startsAt(chunked.text, chunked.chunks[i].start_char, chunkWords(i)[1])
        /\ \A i \in 1..(Len(chunked.chunks) - 1) :
              chunked.chunks[i].start_char < chunked.chunks[i + 1].start_char

(***************************************************************************)
(* detect_and_mark_supersession statement by statement: the candidate      *)
(* query and the two writes per positive candidate are separate store      *)
(* transactions, and ingestions in different processes share the store     *)
(***************************************************************************)

DetectTitles == {tSessionReport, tXy}

\* a node as create_document_node leaves it
createdNode(title) == [NoDoc EXCEPT !.present = TRUE, !.title = title]

\* a created node after initialize_temporal_schema
latestNode(title) ==
    [NoDoc EXCEPT !.present = TRUE, !.title = title, !.version = <<1>>, !.is_latest = "true"]

\* the stores detection starts from: every document is either a latest
\* document or one just created, whose ingestion is about to run detection
DetectStores ==
    {[d \in DocIds |-> IF d \in fresh THEN createdNode(titles[d]) ELSE latestNode(titles[d])] :
        fresh \in SUBSET DocIds, titles \in [DocIds -> DetectTitles]}

NoDetector == [pc |-> "idle", found |-> {}, pending |-> {}, current |-> "null",
               superseded |-> {}, write_failed |-> FALSE]

\* the ingestion date passed by ingest_document: later than every stored one
DetectDate == IsoDate(1)

\* lines 23-25 and the decisions of the loop, which read only the rows returned
detectorAfterQuery(hits) ==
    [NoDetector EXCEPT !.pc = IF hits = {} THEN "returned" ELSE "loop",
                       !.found = hits, !.pending = hits]

\* results = ...; candidates = self._find_supersession_candidates(...)
DetectQuery(n, query_fails) ==
    /\ detectors[n].pc = "idle"
    /\ docs[n].is_latest = "null"
    /\ detectors' = [detectors EXCEPT ![n] =
          detectorAfterQuery(
              positive(decisions(docs,
                                 find_supersession_candidates(docs, n, docs[n].title,
                                                              fileOf[n], query_fails),
                                 docs[n].title, fileOf[n], DetectDate)))]
    /\ UNCHANGED <<docs, edges>>
    /\ UNCHANGED <<ingestedAt, now, stats, last, prevDocs>>
    /\ UNCHANGED decideVars
    /\ UNCHANGED searchVars
    /\ UNCHANGED embedVars
    /\ UNCHANGED <<fileCacheVars, chunkerVars, batchVars, retryVars, pipelineVars>>

\* self.temporal_manager.mark_document_superseded(...): the write is applied,
\* or execute_write raises and the method returns False
DetectMark(n, write_fails) ==
    /\ detectors[n].pc = "loop"
    /\ \E h \in detectors[n].pending :
          /\ docs' = IF write_fails THEN docs
                     ELSE mark_document_superseded(docs, h.document_id, n)
          /\ detectors' = [detectors EXCEPT ![n].pc = "marked", ![n].current = h,
                                            ![n].write_failed = @ \/ write_fails]
    /\ UNCHANGED edges
    /\ UNCHANGED <<ingestedAt, now, stats, last, prevDocs>>
    /\ UNCHANGED decideVars
    /\ UNCHANGED searchVars
    /\ UNCHANGED embedVars
    /\ UNCHANGED <<fileCacheVars, chunkerVars, batchVars, retryVars, pipelineVars>>

\* the loop goes to the next candidate, or the call returns
afterLink(det) ==
    [det EXCEPT !.pc = IF det.pending = {det.current} THEN "returned" ELSE "loop",
                !.pending = @ \ {det.current},
                !.superseded = @ \cup {det.current},
                !.current = "null"]

\* self.temporal_manager.create_supersedes_relationship(...), whose result is
\* not looked at, and results["superseded"].append(...)
DetectLink(n, write_fails) ==
    /\ detectors[n].pc = "marked"
    /\ edges' = IF write_fails THEN edges
                ELSE create_supersedes_relationship(docs, edges, n,
                         detectors[n].current.document_id, detectors[n].current.reason)
    /\ detectors' = [detectors EXCEPT
          ![n] = afterLink([@ EXCEPT !.write_failed = @ \/ write_fails])]
    /\ UNCHANGED docs
    /\ UNCHANGED <<ingestedAt, now, stats, last, prevDocs>>
    /\ UNCHANGED decideVars
    /\ UNCHANGED searchVars
    /\ UNCHANGED embedVars
    /\ UNCHANGED <<fileCacheVars, chunkerVars, batchVars, retryVars, pipelineVars>>

InitDetect ==
    /\ docs \in DetectStores
    /\ edges = {}
    /\ detectors = [d \in DocIds |-> NoDetector]
    /\ ingestedAt = [d \in DocIds |-> 0]
    /\ now = 0
    /\ stats = NoStats
    /\ last = NoOp
    /\ prevDocs = EmptyStore
    /\ DecideIdle
    /\ SearchIdle
    /\ EmbedIdle
    /\ FileCacheIdle
    /\ ChunkerIdle
    /\ BatchIdle
    /\ RetryIdle
    /\ PipelineIdle

NextDetect ==
    \/ \E n \in DocIds, query_fails \in BOOLEAN : DetectQuery(n, query_fails)
    \/ \E n \in DocIds, write_fails \in BOOLEAN : DetectMark(n, write_fails)
    \/ \E n \in DocIds, write_fails \in BOOLEAN : DetectLink(n, write_fails)

SpecDetect == InitDetect /\ [][NextDetect]_vars

\* c is marked as superseded by n
markedBy(c, n) == docs[c].is_latest = "false" /\ docs[c].superseded_by = n

\* a SUPERSEDES relationship goes from n to c
linked(n, c) == \E e \in edges : e.newer = n /\ e.older = c

\* the call for n has returned and no other call was made
onlyCall(n) ==
    /\ detectors[n].pc = "returned"
    /\ \A m \in DocIds \ {n} : detectors[m].pc = "idle"

\* C22, as stated: when detect_and_mark_supersession has returned, a
\* candidate is marked non-latest with superseded_by = the new document if
\* and only if the SUPERSEDES edge from the new document to it exists, even
\* when one of the two store writes fails, and a candidate is in the
\* returned superseded list only if both were applied.
C22_MarkAndLinkTogether ==
    \A n \in DocIds :
        onlyCall(n) =>
            /\ \A c \in DocIds \ {n} : markedBy(c, n) <=> linked(n, c)
            /\ \A h \in detectors[n].superseded :
                  markedBy(h.document_id, n) /\ linked(n, h.document_id)

\* the calls for n1 and n2 have returned, both decided to supersede c, and
\* every write of both was applied
bothSuperseded(n1, n2, c) ==
    /\ n1 # n2
    /\ detectors[n1].pc = "returned"
    /\ detectors[n2].pc = "returned"
    /\ \E h \in detectors[n1].found : h.document_id = c
    /\ \E h \in detectors[n2].found : h.document_id = c
    /\ ~detectors[n1].write_failed
    /\ ~detectors[n2].write_failed

\* C23, as stated: when the detection calls for two new documents run
\* concurrently and both match the same latest candidate c, the final state
\* is consistent: c.superseded_by names one of the two and the only
\* SUPERSEDES edge into c comes from that document.
C23_ConcurrentDetection ==
    \A n1, n2, c \in DocIds :
        bothSuperseded(n1, n2, c) =>
            /\ docs[c].superseded_by \in {n1, n2}
            /\ \A e \in edges : e.older = c => e.newer = docs[c].superseded_by
            /\ linked(docs[c].superseded_by, c)

(***************************************************************************)
(* ingest_document statement by statement, from the creation of the        *)
(* document node to the return (batch_ingester.py lines 142-213)           *)
(***************************************************************************)

MaxChunks == 3

NoPipelineStats == [documents_processed |-> 0, documents_failed |-> 0,
                    documents_superseded |-> 0, chunks_created |-> 0,
                    embeddings_generated |-> 0, errors |-> 0]

\* what self._generate_embedding(chunk.content) returns: the endpoint's
\* vector, or None when the endpoint raised
EmbeddingResults == {"vector", "None"}

\* lines 119-153: the file is parsed and the document node created; the
\* text will give n_chunks chunks, the ingester has a gpu_client or not, and
\* the store holds a latest predecessor that detection will supersede or not
created(n_chunks, gpu_client, has_predecessor) ==
    [called |-> TRUE, pc |-> "detect", n_chunks |-> n_chunks, gpu_client |-> gpu_client,
     has_predecessor |-> has_predecessor, predecessor_marked |-> FALSE,
     persisted |-> <<>>, returned |-> "none", stats |-> NoPipelineStats]

\* except Exception: errors.append(...); documents_failed += 1; return None
failed(p) ==
    [p EXCEPT !.pc = "done", !.returned = "None",
              !.stats.errors = @ + 1, !.stats.documents_failed = @ + 1]

\* lines 155-165: detect_and_mark_supersession and the count of its results
detected(p) ==
    IF p.has_predecessor
        THEN [p EXCEPT !.pc = "chunking", !.predecessor_marked = TRUE,
                       !.stats.documents_superseded = @ + 1]
    ELSE [p EXCEPT !.pc = "chunking"]

\* line 167: chunks = self.chunker.chunk_text_smart(full_text)
chunkingDone(p, raises) ==
    IF raises THEN failed(p)
    ELSE [p EXCEPT !.pc = IF p.n_chunks = 0 THEN "finish" ELSE "persist"]

\* lines 170-176: with generate_embeddings and a gpu_client the count is made
\* after every call of _generate_embedding, which returns None instead of raising
counted(p, result) ==
    IF p.gpu_client THEN p.stats.embeddings_generated + 1
    ELSE p.stats.embeddings_generated

\* the chunk node written by create_chunk_node: if embedding: properties["embedding"] = ...
chunkNode(p, result) ==
    [position |-> Len(p.persisted), has_embedding |-> p.gpu_client /\ result = "vector"]

\* lines 169-188 for one chunk: the embedding, the chunk node and its
\* CONTAINS relationship, the count of chunks
chunkDone(p, result, write_raises) ==
    IF write_raises
        THEN failed([p EXCEPT !.stats.embeddings_generated = counted(p, result)])
    ELSE [p EXCEPT !.persisted = Append(@, chunkNode(p, result)),
                   !.stats.embeddings_generated = counted(p, result),
                   !.stats.chunks_created = @ + 1,
                   !.pc = IF Len(p.persisted) + 1 = p.n_chunks THEN "finish" ELSE "persist"]

\* lines 190-208: the sequence links, topics and concepts, the count, the return
finished(p, write_raises) ==
    IF write_raises THEN failed(p)
    ELSE [p EXCEPT !.pc = "done", !.returned = "document_id",
                   !.stats.documents_processed = @ + 1]

PipelineStep(next_pipeline) ==
    /\ pipeline' = next_pipeline
    /\ UNCHANGED decideVars
    /\ UNCHANGED storeVars
    /\ UNCHANGED searchVars
    /\ UNCHANGED embedVars
    /\ UNCHANGED <<fileCacheVars, chunkerVars, batchVars, detectVars, retryVars>>

CreateDocument(n_chunks, gpu_client, has_predecessor) ==
    /\ ~pipeline.called
    /\ PipelineStep(created(n_chunks, gpu_client, has_predecessor))

DetectSupersession ==
    /\ pipeline.called
    /\ pipeline.pc = "detect"
    /\ PipelineStep(detected(pipeline))

ChunkDocument(raises) ==
    /\ pipeline.called
    /\ pipeline.pc = "chunking"
    /\ PipelineStep(chunkingDone(pipeline, raises))

PersistChunk(result, write_raises) ==
    /\ pipeline.called
    /\ pipeline.pc = "persist"
    /\ PipelineStep(chunkDone(pipeline, result, write_raises))

FinishDocument(write_raises) ==
    /\ pipeline.called
    /\ pipeline.pc = "finish"
    /\ PipelineStep(finished(pipeline, write_raises))

InitPipeline ==
    /\ PipelineIdle
    /\ DecideIdle
    /\ StoreIdle
    /\ SearchIdle
    /\ EmbedIdle
    /\ FileCacheIdle
    /\ ChunkerIdle
    /\ BatchIdle
    /\ DetectIdle
    /\ RetryIdle

NextPipeline ==
    \/ \E n_chunks \in 0..MaxChunks, gpu_client \in BOOLEAN, has_predecessor \in BOOLEAN :
          CreateDocument(n_chunks, gpu_client, has_predecessor)
    \/ DetectSupersession
    \/ \E raises \in BOOLEAN : ChunkDocument(raises)
    \/ \E result \in EmbeddingResults, write_raises \in BOOLEAN :
          PersistChunk(result, write_raises)
    \/ \E write_raises \in BOOLEAN : FinishDocument(write_raises)

SpecPipeline == InitPipeline /\ [][NextPipeline]_vars

\* C25, as stated: the detector runs only after the new document's chunks
\* and their links have been persisted, so that in no reachable state, a
\* failure of chunking or of chunk persistence included, a predecessor is
\* marked non-latest while the document that superseded it has no persisted
\* chunks.
C25_DetectionAfterChunks ==
    (pipeline.called /\ pipeline.predecessor_marked) =>
        /\ pipeline.persisted # <<>>
        /\ Len(pipeline.persisted) = pipeline.n_chunks

\* the chunks persisted with an embedding
withEmbedding == {i \in 1..Len(pipeline.persisted) : pipeline.persisted[i].has_embedding}

\* C30, as stated: embeddings_generated equals the number of chunks
\* persisted with an embedding vector actually obtained; a chunk whose
\* embedding attempt failed is not counted, and it is still persisted
\* without aborting the other chunks.
C30_EmbeddingsCounted ==
    pipeline.called =>
        /\ pipeline.stats.embeddings_generated = Cardinality(withEmbedding)
        /\ pipeline.returned = "document_id" =>
              /\ Len(pipeline.persisted) = pipeline.n_chunks
              /\ pipeline.stats.chunks_created = pipeline.n_chunks

====
